---- MODULE Spec2Model ----
(***************************************************************************)
(* Model of the diff-to-summary pipeline of src/src/gemini.ts:             *)
(* parseDiff, calculateDiffStats, estimateTokens, isLargeDiff,             *)
(* generateCompactDiffSummary and processDiffIntelligently.                *)
(*                                                                         *)
(* A JavaScript string is modelled as the sequence of its characters, each *)
(* character a one-character TLA+ string, so that length, startsWith,      *)
(* substring, split and the regular expressions of the source are computed *)
(* on characters.  An object is a record; an optional property that was    *)
(* never assigned is a missing record field.                               *)
(***************************************************************************)
EXTENDS Integers, Sequences, FiniteSets, TLC

VARIABLES
  diff,       \* the raw diff text handed to the pipeline
  pc,         \* which call has returned: "start", "parsed", "stats", "processed"
  files,      \* value returned by parseDiff(diff)
  stats,      \* value returned by calculateDiffStats(files)
  processed,  \* value returned by processDiffIntelligently(diff)
  tokens,     \* value returned by estimateTokens(diff)
  large,      \* value returned by isLargeDiff(diff, files)
  maxLines,   \* the argument maxLinesPerFile of generateCompactDiffSummary
  summary,    \* value returned by generateCompactDiffSummary(files, maxLines)
  calls,      \* the functions that have returned, for callers that call again
  repositories,   \* the repositories of the Git API, in its order
  sourceControl,  \* the optional argument sourceControl of matchRepository
  matched,        \* value returned by matchRepository
  isGenerating,   \* the module-level flag of extension.ts
  invocation,     \* the invocations of the generateCommit command
  apiKeySecret,   \* context.secrets entry geminiCommits.apiKey
  dontAskToStage, \* context.globalState entry geminiCommits.dontAskToStage
  generation      \* a call of generateCommitMessage and the prompt counted for it

\* the results of the calls on sizes and summaries
sizeVars == <<tokens, large>>
summaryVars == <<maxLines, summary>>

\* the extension host: the Git API, the command handler and its storage
hostVars == <<repositories, sourceControl, matched, isGenerating, invocation,
              apiKeySecret, dontAskToStage, generation>>

vars == <<diff, pc, files, stats, processed, sizeVars, summaryVars, calls,
          hostVars>>

----------------------------------------------------------------------------
(* Characters and string primitives                                        *)

NL == "\n"

\* the grave accent (U+0060), which a TLA+ string cannot hold, as one character
GRAVE == "grave"

\* ECMAScript LineTerminator code points that can occur in the modelled texts
LineTerminators == {"\n", "\r"}

Digits == {"0", "1", "2", "3", "4", "5", "6", "7", "8", "9"}

\* String.prototype.startsWith(p, i-1) with 1-based position i
StartsWithAt(s, i, p) ==
  /\ i >= 1
  /\ i + Len(p) - 1 <= Len(s)
  /\ SubSeq(s, i, i + Len(p) - 1) = p

\* String.prototype.startsWith
StartsWith(s, p) == StartsWithAt(s, 1, p)

\* String.prototype.substring(k) (0-based k, as in the source)
Substring(s, k) == SubSeq(s, k + 1, Len(s))

\* the n-th smallest element of a finite set of integers
Nth(S, n) == CHOOSE x \in S : Cardinality({y \in S : y < x}) = n - 1

\* String.prototype.split for a separator that matches, without overlap, at
\* the positions seps with width w: the pieces between the matches, the empty
\* pieces included; a text without a match is returned as its only piece
SplitAt(s, seps, w) ==
  LET n == Cardinality(seps)
  IN  [k \in 1..(n + 1) |->
         SubSeq(s,
                IF k = 1 THEN 1 ELSE Nth(seps, k - 1) + w,
                IF k = n + 1 THEN Len(s) ELSE Nth(seps, k) - 1)]

\* section.split('\n')
SplitLines(s) == SplitAt(s, {i \in 1..Len(s) : s[i] = NL}, 1)

\* the concatenation of parts[lo..hi], halving the range
RECURSIVE ConcatRange(_, _, _)
ConcatRange(parts, lo, hi) ==
  IF lo > hi THEN <<>>
  ELSE IF lo = hi THEN parts[lo]
  ELSE ConcatRange(parts, lo, (lo + hi) \div 2)
         \o ConcatRange(parts, ((lo + hi) \div 2) + 1, hi)

\* the sum of xs[lo..hi], halving the range
RECURSIVE SumRange(_, _, _)
SumRange(xs, lo, hi) ==
  IF lo > hi THEN 0
  ELSE IF lo = hi THEN xs[lo]
  ELSE SumRange(xs, lo, (lo + hi) \div 2)
         + SumRange(xs, ((lo + hi) \div 2) + 1, hi)

\* Array.prototype.join('\n'), used to build the input texts
Join(lines) ==
  ConcatRange([k \in 1..Len(lines) |->
                 IF k < Len(lines) THEN lines[k] \o <<NL>> ELSE lines[k]],
              1, Len(lines))

----------------------------------------------------------------------------
(* Values of the JavaScript runtime                                        *)

\* the result of a failed String.prototype.match
Null == <<"null">>

\* the value an expression has when evaluating it raises a TypeError
\* (property access on null or undefined)
TypeError == <<"TypeError">>

\* m[k] for the result m of a match (0-based k, as in the source)
Index(m, k) == IF m = Null THEN TypeError ELSE m[k + 1]

\* truthiness of a string: `if (s)`, `filter(Boolean)`
Truthy(s) == s # <<>>

DigitVal ==
  ("0" :> 0) @@ ("1" :> 1) @@ ("2" :> 2) @@ ("3" :> 3) @@ ("4" :> 4) @@
  ("5" :> 5) @@ ("6" :> 6) @@ ("7" :> 7) @@ ("8" :> 8) @@ ("9" :> 9)

\* parseInt(s, 10) for a string of decimal digits
RECURSIVE ParseInt(_)
ParseInt(s) ==
  IF s = <<>> THEN 0
  ELSE 10 * ParseInt(SubSeq(s, 1, Len(s) - 1)) + DigitVal[s[Len(s)]]

\* `.` of a regular expression without the s flag
Dot(c) == c \notin LineTerminators

\* the first position at or after i that holds no decimal digit: where a
\* greedy \d* that starts at i stops
DigitRunEnd(s, i) ==
  IF \E k \in i..Len(s) : s[k] \notin Digits
  THEN Nth({k \in i..Len(s) : s[k] \notin Digits}, 1)
  ELSE IF i > Len(s) THEN i ELSE Len(s) + 1

\* the position after an optional "," at position i
SkipComma(s, i) == IF i <= Len(s) /\ s[i] = "," THEN i + 1 ELSE i

----------------------------------------------------------------------------
(* String literals of parseDiff                                            *)

DIFF_GIT == <<"d", "i", "f", "f", " ", "-", "-", "g", "i", "t", " ">>
A_SLASH == <<"a", "/">>
SP_B_SLASH == <<" ", "b", "/">>
NEW_FILE_MODE == <<"n", "e", "w", " ", "f", "i", "l", "e", " ", "m", "o", "d", "e">>
DELETED_FILE_MODE == <<"d", "e", "l", "e", "t", "e", "d", " ", "f", "i", "l", "e", " ", "m", "o", "d", "e">>
BINARY_FILES == <<"B", "i", "n", "a", "r", "y", " ", "f", "i", "l", "e", "s">>
RENAME_FROM == <<"r", "e", "n", "a", "m", "e", " ", "f", "r", "o", "m">>
AT_AT == <<"@", "@">>
AT_AT_MINUS == <<"@", "@", " ", "-">>
SP_PLUS == <<" ", "+">>
SP_AT_AT == <<" ", "@", "@">>
PLUS == <<"+">>
PLUS3 == <<"+", "+", "+">>
MINUS == <<"-">>
MINUS3 == <<"-", "-", "-">>
SPACE == <<" ">>

----------------------------------------------------------------------------
(* parseDiff                                                               *)

\* positions where /^diff --git /m matches
MarkerStarts(s) ==
  {i \in 1..Len(s) :
     /\ i = 1 \/ s[i - 1] \in LineTerminators
     /\ StartsWithAt(s, i, DIFF_GIT)}

\* diff.split(/^diff --git /m).filter(Boolean)
FileSections(s) ==
  SelectSeq(SplitAt(s, MarkerStarts(s), Len(DIFF_GIT)), Truthy)

\* firstLine.match(/a\/(.*?) b\/(.*?)$/): the leftmost "a/", the first " b/"
\* after it (lazy group 1), the rest of the line up to the end of the string
\* (group 2); <<whole match, group 1, group 2>> or Null
FilePathMatch(line) ==
  LET As == {i \in 1..Len(line) : StartsWithAt(line, i, A_SLASH)}
      Bs == {j \in 1..Len(line) : StartsWithAt(line, j, SP_B_SLASH)}
      Cands == {i \in As : /\ \E j \in Bs : j >= i + 2
                           /\ \A k \in (i + 2)..Len(line) : Dot(line[k])}
  IN  IF Cands = {} THEN Null
      ELSE LET i == Nth(Cands, 1)
               j == Nth({k \in Bs : k >= i + 2}, 1)
           IN  << SubSeq(line, i, Len(line)),
                  SubSeq(line, i + 2, j - 1),
                  SubSeq(line, j + 3, Len(line)) >>

\* line.match(/@@ -\d+,?\d* \+(\d+),?\d* @@/) tried at position i:
\* the position pair <<start of group 1, end of group 1 + 1>>, or <<>>
HunkHeaderMatchAt(line, i) ==
  LET p1 == i + 4
      d1 == DigitRunEnd(line, p1)
      p3 == DigitRunEnd(line, SkipComma(line, d1))
      p4 == p3 + 2
      d4 == DigitRunEnd(line, p4)
      p6 == DigitRunEnd(line, SkipComma(line, d4))
  IN  IF /\ StartsWithAt(line, i, AT_AT_MINUS)
         /\ d1 > p1
         /\ StartsWithAt(line, p3, SP_PLUS)
         /\ d4 > p4
         /\ StartsWithAt(line, p6, SP_AT_AT)
      THEN <<p4, d4, p6 + 2>>
      ELSE <<>>

\* line.match(/@@ -\d+,?\d* \+(\d+),?\d* @@/): <<whole match, group 1>> or Null
HunkHeaderMatch(line) ==
  LET Starts == {i \in 1..Len(line) : HunkHeaderMatchAt(line, i) # <<>>}
  IN  IF Starts = {} THEN Null
      ELSE LET i == Nth(Starts, 1)
               m == HunkHeaderMatchAt(line, i)
           IN  << SubSeq(line, i, m[3]), SubSeq(line, m[1], m[2] - 1) >>

\* the FileChange a section starts with (gemini.ts 237-246)
NewFileChange ==
  [path |-> <<>>, additions |-> 0, deletions |-> 0, changes |-> <<>>,
   isBinary |-> FALSE, isNew |-> FALSE, isDeleted |-> FALSE,
   isRenamed |-> FALSE]

\* ParseHeader without the `if (filePathMatch)` guard: the groups of a failed
\* match are read
ParseHeader_Unguarded(fc, firstLine) ==
  LET filePathMatch == FilePathMatch(firstLine)
      fc1 == [fc EXCEPT !.path = Index(filePathMatch, 2)]
  IN  IF Index(filePathMatch, 1) # Index(filePathMatch, 2)
      THEN [fc1 EXCEPT !.isRenamed = TRUE]
             @@ [oldPath |-> Index(filePathMatch, 1)]
      ELSE fc1

\* "Parse file header" (gemini.ts 248-257)
ParseHeader(fc, firstLine) ==
  LET filePathMatch == FilePathMatch(firstLine)
  IN  IF filePathMatch # Null
      THEN LET fc1 == [fc EXCEPT !.path = Index(filePathMatch, 2)]
           IN  IF Index(filePathMatch, 1) # Index(filePathMatch, 2)
               THEN [fc1 EXCEPT !.isRenamed = TRUE]
                      @@ [oldPath |-> Index(filePathMatch, 1)]
               ELSE fc1
      ELSE fc

\* StatusLine with the flag of the first branch assigned in the second too
StatusLine_DeletedSetsNew(fc, line) ==
  IF StartsWith(line, NEW_FILE_MODE) THEN [fc EXCEPT !.isNew = TRUE]
  ELSE IF StartsWith(line, DELETED_FILE_MODE)
  THEN [fc EXCEPT !.isNew = TRUE, !.isDeleted = TRUE]
  ELSE IF StartsWith(line, BINARY_FILES) THEN [fc EXCEPT !.isBinary = TRUE]
  ELSE IF StartsWith(line, RENAME_FROM) THEN [fc EXCEPT !.isRenamed = TRUE]
  ELSE fc

\* one iteration of "Check for file status" (gemini.ts 260-270)
StatusLine(fc, line) ==
  IF StartsWith(line, NEW_FILE_MODE) THEN [fc EXCEPT !.isNew = TRUE]
  ELSE IF StartsWith(line, DELETED_FILE_MODE) THEN [fc EXCEPT !.isDeleted = TRUE]
  ELSE IF StartsWith(line, BINARY_FILES) THEN [fc EXCEPT !.isBinary = TRUE]
  ELSE IF StartsWith(line, RENAME_FROM) THEN [fc EXCEPT !.isRenamed = TRUE]
  ELSE fc

\* the loop "Check for file status" over lines[lo..hi]: the iterations of
\* the first half of the range, in order, and then, on the FileChange they
\* leave, those of the second half
RECURSIVE ScanStatus(_, _, _, _)
ScanStatus(fc, lines, lo, hi) ==
  IF lo > hi THEN fc
  ELSE IF lo = hi THEN StatusLine(fc, lines[lo])
  ELSE LET firstHalf == ScanStatus(fc, lines, lo, (lo + hi) \div 2)
       IN  IF DOMAIN firstHalf # {}
           THEN ScanStatus(firstHalf, lines, ((lo + hi) \div 2) + 1, hi)
           ELSE firstHalf

\* HunkHeader seeding the counter zero-based: one less than the header's start
HunkHeader_ZeroBased(st, line) ==
  LET lineNumberMatch == HunkHeaderMatch(line)
  IN  [st EXCEPT !.inHunk = TRUE,
                 !.currentLineNumber =
                    IF lineNumberMatch # Null
                    THEN ParseInt(Index(lineNumberMatch, 1)) - 1
                    ELSE @]

\* the hunk-header branch (gemini.ts 277-284) on the loop state
\* st = [fc, inHunk, currentLineNumber]
HunkHeader(st, line) ==
  LET lineNumberMatch == HunkHeaderMatch(line)
  IN  [st EXCEPT !.inHunk = TRUE,
                 !.currentLineNumber =
                    IF lineNumberMatch # Null
                    THEN ParseInt(Index(lineNumberMatch, 1))
                    ELSE @]

\* the addition branch (gemini.ts 288-293)
PushAddition(st, line) ==
  [st EXCEPT !.fc.additions = @ + 1,
             !.fc.changes = Append(@, [type |-> "addition",
                                       line |-> Substring(line, 1),
                                       lineNumber |-> st.currentLineNumber]),
             !.currentLineNumber = @ + 1]

\* PushDeletion advancing the counter as the other branches do
PushDeletion_Advances(st, line) ==
  [st EXCEPT !.fc.deletions = @ + 1,
             !.fc.changes = Append(@, [type |-> "deletion",
                                       line |-> Substring(line, 1)]),
             !.currentLineNumber = @ + 1]

\* the deletion branch (gemini.ts 295-299)
PushDeletion(st, line) ==
  [st EXCEPT !.fc.deletions = @ + 1,
             !.fc.changes = Append(@, [type |-> "deletion",
                                       line |-> Substring(line, 1)])]

\* PushContext counting the context line as an addition
PushContext_Counted(st, line) ==
  [st EXCEPT !.fc.additions = @ + 1,
             !.fc.changes = Append(@, [type |-> "context",
                                       line |-> Substring(line, 1),
                                       lineNumber |-> st.currentLineNumber]),
             !.currentLineNumber = @ + 1]

\* PushContext without the increment of currentLineNumber
PushContext_NoAdvance(st, line) ==
  [st EXCEPT !.fc.changes = Append(@, [type |-> "context",
                                       line |-> Substring(line, 1),
                                       lineNumber |-> st.currentLineNumber])]

\* the context branch (gemini.ts 301-305)
PushContext(st, line) ==
  [st EXCEPT !.fc.changes = Append(@, [type |-> "context",
                                       line |-> Substring(line, 1),
                                       lineNumber |-> st.currentLineNumber]),
             !.currentLineNumber = @ + 1]

\* HunkLine testing the one-character prefixes only
HunkLine_OneCharPrefix(st, line) ==
  IF StartsWith(line, AT_AT) THEN HunkHeader(st, line)
  ELSE IF st.inHunk /\ ~st.fc.isBinary
  THEN IF StartsWith(line, PLUS)
       THEN PushAddition(st, line)
       ELSE IF StartsWith(line, MINUS)
       THEN PushDeletion(st, line)
       ELSE IF StartsWith(line, SPACE)
       THEN PushContext(st, line)
       ELSE st
  ELSE st

\* HunkLine without the `!fileChange.isBinary` test
HunkLine_IgnoresBinary(st, line) ==
  IF StartsWith(line, AT_AT) THEN HunkHeader(st, line)
  ELSE IF st.inHunk
  THEN IF StartsWith(line, PLUS) /\ ~StartsWith(line, PLUS3)
       THEN PushAddition(st, line)
       ELSE IF StartsWith(line, MINUS) /\ ~StartsWith(line, MINUS3)
       THEN PushDeletion(st, line)
       ELSE IF StartsWith(line, SPACE)
       THEN PushContext(st, line)
       ELSE st
  ELSE st

\* one iteration of "Parse code changes" (gemini.ts 276-308)
HunkLine(st, line) ==
  IF StartsWith(line, AT_AT) THEN HunkHeader(st, line)
  ELSE IF st.inHunk /\ ~st.fc.isBinary
  THEN IF StartsWith(line, PLUS) /\ ~StartsWith(line, PLUS3)
       THEN PushAddition(st, line)
       ELSE IF StartsWith(line, MINUS) /\ ~StartsWith(line, MINUS3)
       THEN PushDeletion(st, line)
       ELSE IF StartsWith(line, SPACE)
       THEN PushContext(st, line)
       ELSE st
  ELSE st

\* the loop "Parse code changes" over lines[lo..hi]: the iterations of the
\* first half of the range, in order, and then, on the state they leave,
\* those of the second half
RECURSIVE ScanHunks(_, _, _, _)
ScanHunks(st, lines, lo, hi) ==
  IF lo > hi THEN st
  ELSE IF lo = hi THEN HunkLine(st, lines[lo])
  ELSE LET firstHalf == ScanHunks(st, lines, lo, (lo + hi) \div 2)
       IN  IF DOMAIN firstHalf # {}
           THEN ScanHunks(firstHalf, lines, ((lo + hi) \div 2) + 1, hi)
           ELSE firstHalf

\* the body of the loop over the sections (gemini.ts 236-308): the
\* FileChange built for one section
ParseSection(section) ==
  LET lines == SplitLines(section)
      fc1 == ParseHeader(NewFileChange, lines[1])
      fc2 == ScanStatus(fc1, lines, 1, Len(lines))
      st == ScanHunks([fc |-> fc2, inHunk |-> FALSE, currentLineNumber |-> 0],
                      lines, 1, Len(lines))
  IN  st.fc

\* Emit without the `if (fileChange.path)` test
Emit_Always(fileChange) == <<fileChange>>

\* files.push(fileChange) under `if (fileChange.path)` (gemini.ts 310-312):
\* what one section adds to files
Emit(fileChange) ==
  IF Truthy(fileChange.path) THEN <<fileChange>> ELSE <<>>

\* the loop over fileSections: what the sections add to files, in order
parseDiff(d) ==
  LET fileSections == FileSections(d)
  IN  ConcatRange([k \in 1..Len(fileSections) |->
                     Emit(ParseSection(fileSections[k]))],
                  1, Len(fileSections))

----------------------------------------------------------------------------
(* calculateDiffStats, estimateTokens, isLargeDiff                         *)

\* SumFiles adding file.additions to both totals
SumFiles_AdditionsTwice(st, fs) ==
  [st EXCEPT
     !.totalAdditions =
        @ + SumRange([k \in 1..Len(fs) |-> fs[k].additions], 1, Len(fs)),
     !.totalDeletions =
        @ + SumRange([k \in 1..Len(fs) |-> fs[k].additions], 1, Len(fs))]

\* the loop of calculateDiffStats (gemini.ts 330-333) on the stats st
SumFiles(st, fs) ==
  [st EXCEPT
     !.totalAdditions =
        @ + SumRange([k \in 1..Len(fs) |-> fs[k].additions], 1, Len(fs)),
     !.totalDeletions =
        @ + SumRange([k \in 1..Len(fs) |-> fs[k].deletions], 1, Len(fs))]

calculateDiffStats(fs) ==
  LET st0 == [totalFiles |-> Len(fs), totalAdditions |-> 0,
              totalDeletions |-> 0, totalChanges |-> 0, estimatedTokens |-> 0]
      st1 == SumFiles(st0, fs)
  IN  [st1 EXCEPT !.totalChanges = st1.totalAdditions + st1.totalDeletions]

\* estimateTokens at the 4 characters per token of plain text
estimateTokens_PlainText(text) == (Len(text) + 3) \div 4

\* Math.ceil(text.length / 2.5)
estimateTokens(text) == (2 * Len(text) + 4) \div 5

LARGE_FILES == 50
LARGE_CHANGES == 500
LARGE_TOKENS == 15000

\* isLargeDiff with the thresholds included
isLargeDiff_AtLeast(d, optFiles) ==
  LET parsedFiles == IF optFiles # <<>> THEN optFiles[1] ELSE parseDiff(d)
      st == calculateDiffStats(parsedFiles)
      estimatedTokens == estimateTokens(d)
  IN  \/ st.totalFiles >= LARGE_FILES
      \/ st.totalChanges >= LARGE_CHANGES
      \/ estimatedTokens >= LARGE_TOKENS

\* isLargeDiff(diff, files?): optFiles is <<>> when the argument is omitted
\* and <<files>> when it is given
isLargeDiff(d, optFiles) ==
  LET parsedFiles == IF optFiles # <<>> THEN optFiles[1] ELSE parseDiff(d)
      st == calculateDiffStats(parsedFiles)
      estimatedTokens == estimateTokens(d)
  IN  \/ st.totalFiles > LARGE_FILES
      \/ st.totalChanges > LARGE_CHANGES
      \/ estimatedTokens > LARGE_TOKENS

----------------------------------------------------------------------------
(* generateCompactDiffSummary                                              *)

DigitChar == <<"0", "1", "2", "3", "4", "5", "6", "7", "8", "9">>

\* `${n}` for a non-negative integer n
RECURSIVE NumStr(_)
NumStr(n) ==
  IF n < 10 THEN <<DigitChar[n + 1]>>
  ELSE NumStr(n \div 10) \o <<DigitChar[(n % 10) + 1]>>

\* `${file.oldPath}`: a missing property renders as "undefined"
OldPathStr(file) ==
  IF "oldPath" \in DOMAIN file THEN file.oldPath ELSE <<"u", "n", "d", "e", "f", "i", "n", "e", "d">>

WhiteSpace == {" ", "\t", "\n", "\r"}

\* s.trim().length > 0
TrimNonEmpty(s) == \E k \in 1..Len(s) : s[k] \notin WhiteSpace

\* Plural with no 's' for the count 0 either
Plural_ZeroSingular(n) == IF n > 1 THEN <<"s">> ELSE <<>>

\* `s` when n !== 1, '' otherwise
Plural(n) == IF n # 1 THEN <<"s">> ELSE <<>>

\* the statistics line (gemini.ts 348-351)
StatsLine(st) ==
  <<"*", "*", "S", "t", "a", "t", "i", "s", "t", "i", "c", "s", "*", "*", ":", " ">> \o NumStr(st.totalFiles) \o <<" ", "f", "i", "l", "e">>
    \o Plural(st.totalFiles) \o <<" ", "c", "h", "a", "n", "g", "e", "d", ",", " ">>
    \o NumStr(st.totalAdditions) \o <<" ", "i", "n", "s", "e", "r", "t", "i", "o", "n">>
    \o Plural(st.totalAdditions) \o <<"(", "+", ")", ",", " ">>
    \o NumStr(st.totalDeletions) \o <<" ", "d", "e", "l", "e", "t", "i", "o", "n">>
    \o Plural(st.totalDeletions) \o <<"(", "-", ")", NL, NL>>

\* StatusText testing isDeleted before isNew
StatusText_DeletedFirst(file) ==
  IF file.isDeleted THEN <<"*", "*", "S", "t", "a", "t", "u", "s", "*", "*", ":", " ", "D", "e", "l", "e", "t", "e", "d", NL>>
  ELSE IF file.isNew THEN <<"*", "*", "S", "t", "a", "t", "u", "s", "*", "*", ":", " ", "N", "e", "w", " ", "f", "i", "l", "e", NL>>
  ELSE IF file.isRenamed
  THEN <<"*", "*", "S", "t", "a", "t", "u", "s", "*", "*", ":", " ", "R", "e", "n", "a", "m", "e", "d", " ", "f", "r", "o", "m", " ", GRAVE>> \o OldPathStr(file) \o <<GRAVE, NL>>
  ELSE <<>>

\* "File status" (gemini.ts 358-364)
StatusText(file) ==
  IF file.isNew THEN <<"*", "*", "S", "t", "a", "t", "u", "s", "*", "*", ":", " ", "N", "e", "w", " ", "f", "i", "l", "e", NL>>
  ELSE IF file.isDeleted THEN <<"*", "*", "S", "t", "a", "t", "u", "s", "*", "*", ":", " ", "D", "e", "l", "e", "t", "e", "d", NL>>
  ELSE IF file.isRenamed
  THEN <<"*", "*", "S", "t", "a", "t", "u", "s", "*", "*", ":", " ", "R", "e", "n", "a", "m", "e", "d", " ", "f", "r", "o", "m", " ", GRAVE>> \o OldPathStr(file) \o <<GRAVE, NL>>
  ELSE <<>>

\* change.type !== 'context' && change.line.trim().length > 0
Meaningful(change) == change.type # "context" /\ TrimNonEmpty(change.line)

\* one iteration of the loop over linesToShow (gemini.ts 383-384)
ChangeLine(change) ==
  (IF change.type = "addition" THEN <<"+">> ELSE <<"-">>)
    \o <<" ">> \o change.line \o <<NL>>

\* the loop over linesToShow (gemini.ts 382-385)
ChangeLines(linesToShow) ==
  ConcatRange([k \in 1..Len(linesToShow) |-> ChangeLine(linesToShow[k])],
              1, Len(linesToShow))

\* slice(0, n + 1): one entry too many
Slice0_OneMore(s, n) == SubSeq(s, 1, IF n + 1 < Len(s) THEN n + 1 ELSE Len(s))

\* Array.prototype.slice(0, n)
Slice0(s, n) == SubSeq(s, 1, IF n < Len(s) THEN n ELSE Len(s))

\* "Show meaningful code changes (limited)" (gemini.ts 373-392)
KeyChanges(file, maxLinesPerFile) ==
  LET meaningfulChanges == SelectSeq(file.changes, Meaningful)
  IN  IF Len(meaningfulChanges) > 0
      THEN <<"*", "*", "K", "e", "y", " ", "c", "h", "a", "n", "g", "e", "s", "*", "*", ":", NL, GRAVE, GRAVE, GRAVE, NL>>
             \o ChangeLines(Slice0(meaningfulChanges, maxLinesPerFile))
             \o (IF Len(meaningfulChanges) > maxLinesPerFile
                 THEN <<".", ".", ".", " ", "a", "n", "d", " ">>
                        \o NumStr(Len(meaningfulChanges) - maxLinesPerFile)
                        \o <<" ", "m", "o", "r", "e", " ", "c", "h", "a", "n", "g", "e", "s", NL>>
                 ELSE <<>>)
             \o <<GRAVE, GRAVE, GRAVE, NL, NL>>
      ELSE <<>>

\* one iteration of the file-by-file summary (gemini.ts 354-393)
FileSummary(file, maxLinesPerFile) ==
  <<"#", "#", "#", " ">> \o file.path \o <<NL>>
    \o StatusText(file)
    \o (IF file.isBinary
        THEN <<"*", "*", "T", "y", "p", "e", "*", "*", ":", " ", "B", "i", "n", "a", "r", "y", " ", "f", "i", "l", "e", NL, NL>>
        ELSE <<"*", "*", "C", "h", "a", "n", "g", "e", "s", "*", "*", ":", " ", "+">> \o NumStr(file.additions) \o <<" ", "-">>
               \o NumStr(file.deletions) \o <<NL, NL>>
               \o KeyChanges(file, maxLinesPerFile))

\* the loop over the files (gemini.ts 354-393)
FileSummaries(fs, maxLinesPerFile) ==
  ConcatRange([k \in 1..Len(fs) |-> FileSummary(fs[k], maxLinesPerFile)],
              1, Len(fs))

DEFAULT_MAX_LINES == 20

generateCompactDiffSummary(fs, maxLinesPerFile) ==
  <<"#", "#", " ", "D", "i", "f", "f", " ", "S", "u", "m", "m", "a", "r", "y", NL, NL>> \o StatsLine(calculateDiffStats(fs))
    \o FileSummaries(fs, maxLinesPerFile)

----------------------------------------------------------------------------
(* processDiffIntelligently                                                *)

COMPACT_MAX_LINES == 15

\* processDiffIntelligently leaving maxLinesPerFile at its default
processDiffIntelligently_DefaultLimit(d) ==
  LET fs == parseDiff(d)
      st == calculateDiffStats(fs)
  IN  IF isLargeDiff(d, <<fs>>)
      THEN [content |-> generateCompactDiffSummary(fs, DEFAULT_MAX_LINES),
            wasCompacted |-> TRUE, stats |-> st]
      ELSE [content |-> d, wasCompacted |-> FALSE, stats |-> st]

processDiffIntelligently(d) ==
  LET fs == parseDiff(d)
      st == calculateDiffStats(fs)
  IN  IF isLargeDiff(d, <<fs>>)
      THEN [content |-> generateCompactDiffSummary(fs, COMPACT_MAX_LINES),
            wasCompacted |-> TRUE, stats |-> st]
      ELSE [content |-> d, wasCompacted |-> FALSE, stats |-> st]

----------------------------------------------------------------------------
(* Inputs: diff texts built from lines of the kinds git writes, in any     *)
(* order, and FileChange sequences a caller builds by hand                 *)

MaxLines == 3       \* lines of a text over Vocabulary
MaxHunkLines == 4   \* lines after the header of a text over HunkVocabulary
MaxFiles == 3       \* length of a hand-built FileChange sequence

\* file paths; the last one lies in a directory whose name ends in " b"
PathX == <<"x">>
PathY == <<"y">>
PathDir == <<"d", " ", "b", "/", "x">>
Paths == {PathX, PathY, PathDir}

\* the "diff --git a/<old> b/<new>" line git writes for the paths p and q
HeaderLine(p, q) == DIFF_GIT \o A_SLASH \o p \o SP_B_SLASH \o q

LineNewFile == NEW_FILE_MODE \o <<" ", "1", "0", "0", "6", "4", "4">>
LineDeletedFile == DELETED_FILE_MODE \o <<" ", "1", "0", "0", "6", "4", "4">>
LineBinary == BINARY_FILES \o <<" ", "a", "/", "x", " ", "a", "n", "d", " ", "b", "/", "x", " ", "d", "i", "f", "f", "e", "r">>
LineRenameFrom == RENAME_FROM \o <<" ", "x">>
LineHunk == <<"@", "@", " ", "-", "1", ",", "2", " ", "+", "1", "2", ",", "3", " ", "@", "@">>
LineHunkZero == <<"@", "@", " ", "-", "1", ",", "3", " ", "+", "0", ",", "0", " ", "@", "@">>
LineHunkCombined == <<"@", "@", "@", " ", "-", "1", " ", "-", "1", " ", "+", "1", " ", "@", "@", "@">>
LineAdd == <<"+", "a">>
LineDel == <<"-", "b">>
LineCtx == <<" ", "c">>
LineEmpty == <<>>
LineNoPair == DIFF_GIT \o PathX
LineEmptyPath == HeaderLine(PathX, <<>>)

Vocabulary ==
  { HeaderLine(PathX, PathX), HeaderLine(PathX, PathY),
    HeaderLine(PathDir, PathDir), LineEmptyPath, LineNoPair,
    LineNewFile, LineDeletedFile, LineBinary, LineRenameFrom,
    LineHunk, LineAdd, LineEmpty }

HunkVocabulary ==
  { LineHunk, LineHunkZero, LineHunkCombined, LineAdd, LineDel, LineCtx,
    LineBinary }

\* the sequences of at most n elements of S
SeqsUpTo(S, n) == UNION {[1..k -> S] : k \in 0..n}

\* n copies of x
Repeat(x, n) == [k \in 1..n |-> x]

\* texts with as many sections as the file-count threshold, and one more
ManySections ==
  { Repeat(HeaderLine(PathX, PathX), n) : n \in {LARGE_FILES, LARGE_FILES + 1} }

Inputs ==
  { Join(ls) : ls \in SeqsUpTo(Vocabulary, MaxLines) }
    \cup { Join(<<HeaderLine(PathX, PathX)>> \o ls) :
             ls \in SeqsUpTo(HunkVocabulary, MaxHunkLines) }
    \cup { Join(ls) : ls \in ManySections }

\* a FileChange literal as the tests build it (gemini.test.ts 291-300)
GivenFile(a, d) ==
  [path |-> <<"b", "i", "g", ".", "t", "s">>, additions |-> a, deletions |-> d, changes |-> <<>>,
   isBinary |-> FALSE, isNew |-> FALSE, isDeleted |-> FALSE,
   isRenamed |-> FALSE]

GivenFileChanges == { GivenFile(a, d) : a \in {0, 1, 300}, d \in {0, 201} }

\* the text 'short' the tests pass along with hand-built files
ShortDiff == <<"s", "h", "o", "r", "t">>

----------------------------------------------------------------------------
(* The calls                                                               *)

None == <<>>

\* a caller of the pipeline alone: no extension host
HostUnused ==
  /\ repositories = None
  /\ sourceControl = None
  /\ matched = None
  /\ isGenerating = FALSE
  /\ invocation = None
  /\ apiKeySecret = None
  /\ dontAskToStage = FALSE
  /\ generation = None

\* a caller holds a diff text, or a FileChange sequence it built itself
Init ==
  /\ stats = None
  /\ processed = None
  /\ tokens = None
  /\ large = None
  /\ maxLines = None
  /\ summary = None
  /\ calls = None
  /\ HostUnused
  /\ \/ /\ diff \in Inputs
        /\ files = None
        /\ pc = "start"
     \/ /\ diff = ShortDiff
        /\ files \in SeqsUpTo(GivenFileChanges, MaxFiles)
        /\ pc = "given"

\* files = parseDiff(diff)
ParseDiff ==
  /\ pc = "start"
  /\ files' = parseDiff(diff)
  /\ pc' = "parsed"
  /\ UNCHANGED <<diff, stats, processed>>
  /\ UNCHANGED <<sizeVars, summaryVars, calls>>
  /\ UNCHANGED hostVars

\* stats = calculateDiffStats(files)
CalculateDiffStats ==
  /\ pc \in {"parsed", "given"}
  /\ stats' = calculateDiffStats(files)
  /\ pc' = "stats"
  /\ UNCHANGED <<diff, files, processed>>
  /\ UNCHANGED <<sizeVars, summaryVars, calls>>
  /\ UNCHANGED hostVars

\* processed = processDiffIntelligently(diff)
ProcessDiffIntelligently ==
  /\ pc = "start"
  /\ processed' = processDiffIntelligently(diff)
  /\ pc' = "processed"
  /\ UNCHANGED <<diff, files, stats>>
  /\ UNCHANGED <<sizeVars, summaryVars, calls>>
  /\ UNCHANGED hostVars

Next ==
  \/ ParseDiff
  \/ CalculateDiffStats
  \/ ProcessDiffIntelligently

Spec == Init /\ [][Next]_vars

----------------------------------------------------------------------------
(* The calls on sizes: estimateTokens and isLargeDiff, on texts and on     *)
(* FileChange sequences around the three thresholds                        *)

MaxTextLen == 6     \* length of a short text over TextChars

TextChars == {"a", "+"}

\* the text lengths around the token threshold: 15000 tokens are 37500
\* characters
ThresholdLength == (5 * LARGE_TOKENS) \div 2
ThresholdLengths ==
  {ThresholdLength - 3, ThresholdLength - 2, ThresholdLength,
   ThresholdLength + 1}

SizeTexts ==
  SeqsUpTo(TextChars, MaxTextLen)
    \cup { Repeat("a", n) : n \in ThresholdLengths }

\* n files as the tests build them, the last one with a additions and d
\* deletions, the others with 10 additions
FilesOf(n, a, d) == Repeat(GivenFile(10, 0), n - 1) \o <<GivenFile(a, d)>>

SizeFiles ==
  {<<>>}
    \cup { FilesOf(n, a, d) : n \in {1, LARGE_FILES, LARGE_FILES + 1},
                              a \in {0, 10, 300}, d \in {0, 1, 200, 201} }

\* a caller holds a text and a FileChange sequence, or a text alone
InitSize ==
  /\ stats = None
  /\ processed = None
  /\ tokens = None
  /\ large = None
  /\ maxLines = None
  /\ summary = None
  /\ calls = None
  /\ HostUnused
  /\ \/ /\ diff \in SizeTexts
        /\ files \in SizeFiles
        /\ pc = "given"
     \/ /\ diff \in { Join(ls) : ls \in ManySections }
                      \cup SeqsUpTo(TextChars, MaxTextLen)
        /\ files = None
        /\ pc = "start"

\* tokens = estimateTokens(diff)
EstimateTokens ==
  /\ pc \in {"start", "given"}
  /\ tokens' = estimateTokens(diff)
  /\ pc' = "tokens"
  /\ UNCHANGED <<diff, files, stats, processed, large, summaryVars, calls>>
  /\ UNCHANGED hostVars

\* large = isLargeDiff(diff, files), or isLargeDiff(diff) by a caller that
\* holds no files
IsLargeDiff ==
  /\ pc \in {"start", "given"}
  /\ large' = isLargeDiff(diff, IF pc = "given" THEN <<files>> ELSE None)
  /\ pc' = IF pc = "given" THEN "large" ELSE "largeParsed"
  /\ UNCHANGED <<diff, files, stats, processed, tokens, summaryVars, calls>>
  /\ UNCHANGED hostVars

NextSize ==
  \/ EstimateTokens
  \/ IsLargeDiff

SpecSize == InitSize /\ [][NextSize]_vars

----------------------------------------------------------------------------
(* The calls of generateCompactDiffSummary, on the files parsed from a     *)
(* text as the tests do                                                     *)

MaxChanges == 3     \* lines after the hunk header of a text of SummaryInputs
MaxShown == 2       \* largest maxLinesPerFile a caller passes

\* an added line of white space only
LineBlankAdd == <<"+", " ">>

\* the first lines of a section: the header line and the status lines
SectionHeads ==
  { <<HeaderLine(PathX, PathX)>>,
    <<HeaderLine(PathX, PathX), LineNewFile>>,
    <<HeaderLine(PathX, PathX), LineDeletedFile>>,
    <<HeaderLine(PathX, PathY)>>,
    <<HeaderLine(PathX, PathX), LineRenameFrom>>,
    <<HeaderLine(PathX, PathX), LineBinary>>,
    <<HeaderLine(PathX, PathX), LineNewFile, LineDeletedFile>>,
    <<HeaderLine(PathX, PathY), LineNewFile>>,
    <<HeaderLine(PathX, PathY), LineDeletedFile>>,
    <<HeaderLine(PathX, PathX), LineNewFile, LineDeletedFile, LineBinary>> }

\* the lines of a hunk
ChangeVocabulary == {LineAdd, LineDel, LineCtx, LineBlankAdd}

\* a second section
SecondSection == <<HeaderLine(PathY, PathY), LineHunk, LineAdd>>

\* texts of one section with up to MaxChanges hunk lines, and of two
\* sections
SummaryInputs ==
  { Join(head \o <<LineHunk>> \o ls) :
      head \in SectionHeads, ls \in SeqsUpTo(ChangeVocabulary, MaxChanges) }
    \cup { Join(head \o <<LineHunk>> \o ls \o SecondSection) :
             head \in SectionHeads, ls \in SeqsUpTo(ChangeVocabulary, 1) }

\* large texts: over the file-count threshold, the first file with one
\* change more than the summary of a large diff lists; at and over the token
\* threshold
LargeInputs ==
  { Join(<<HeaderLine(PathX, PathX), LineHunk>>
           \o Repeat(LineAdd, COMPACT_MAX_LINES + 1)
           \o Repeat(HeaderLine(PathY, PathY), n)) :
      n \in {LARGE_FILES - 1, LARGE_FILES} }
    \cup { Repeat("a", n) : n \in {ThresholdLength, ThresholdLength + 1} }

InitSummary ==
  /\ diff \in SummaryInputs \cup LargeInputs \cup {<<>>}
  /\ files = None
  /\ pc = "start"
  /\ stats = None
  /\ processed = None
  /\ tokens = None
  /\ large = None
  /\ maxLines = None
  /\ summary = None
  /\ calls = None
  /\ HostUnused

\* summary = generateCompactDiffSummary(files) or
\* generateCompactDiffSummary(files, n)
GenerateCompactDiffSummary ==
  /\ pc = "parsed"
  /\ \E opt \in {<<>>} \cup { <<n>> : n \in 1..MaxShown } :
        maxLines' = IF opt = <<>> THEN DEFAULT_MAX_LINES ELSE opt[1]
  /\ summary' = generateCompactDiffSummary(files, maxLines')
  /\ pc' = "summary"
  /\ UNCHANGED <<diff, files, stats, processed, sizeVars, calls>>
  /\ UNCHANGED hostVars

NextSummary ==
  \/ ParseDiff
  \/ GenerateCompactDiffSummary
  \/ ProcessDiffIntelligently

SpecSummary == InitSummary /\ [][NextSummary]_vars

----------------------------------------------------------------------------
(* Callers that call the functions again, in any order, on the same text   *)
(* and on the FileChange sequence parseDiff returned for it                *)

\* texts of one section with up to two hunk lines, and of two sections
CallInputs ==
  { Join(head \o <<LineHunk>> \o ls) :
      head \in { <<HeaderLine(PathX, PathX)>>,
                 <<HeaderLine(PathX, PathY), LineNewFile>>,
                 <<HeaderLine(PathX, PathX), LineBinary>> },
      ls \in SeqsUpTo({LineAdd, LineDel, LineCtx, LineBlankAdd}, 2) }
    \cup { Join(<<HeaderLine(PathX, PathX), LineHunk, LineAdd>> \o SecondSection),
           <<>> }

InitCalls ==
  /\ diff \in CallInputs
  /\ maxLines \in {1, DEFAULT_MAX_LINES}
  /\ calls = {}
  /\ HostUnused
  /\ pc = "start"
  /\ files = None
  /\ stats = None
  /\ processed = None
  /\ tokens = None
  /\ large = None
  /\ summary = None

\* files = parseDiff(diff)
CallParseDiff ==
  /\ files' = parseDiff(diff)
  /\ calls' = calls \cup {"parseDiff"}
  /\ UNCHANGED <<diff, pc, stats, processed, tokens, large, maxLines, summary>>
  /\ UNCHANGED hostVars

\* stats = calculateDiffStats(files): reads files.length, file.additions and
\* file.deletions (gemini.ts 323-332)
CallCalculateDiffStats ==
  /\ "parseDiff" \in calls
  /\ stats' = calculateDiffStats(files)
  /\ calls' = calls \cup {"calculateDiffStats"}
  /\ UNCHANGED <<diff, pc, files, processed, tokens, large, maxLines, summary>>
  /\ UNCHANGED hostVars

\* tokens = estimateTokens(diff)
CallEstimateTokens ==
  /\ tokens' = estimateTokens(diff)
  /\ calls' = calls \cup {"estimateTokens"}
  /\ UNCHANGED <<diff, pc, files, stats, processed, large, maxLines, summary>>
  /\ UNCHANGED hostVars

\* large = isLargeDiff(diff, files)
CallIsLargeDiff ==
  /\ "parseDiff" \in calls
  /\ large' = isLargeDiff(diff, <<files>>)
  /\ calls' = calls \cup {"isLargeDiff"}
  /\ UNCHANGED <<diff, pc, files, stats, processed, tokens, maxLines, summary>>
  /\ UNCHANGED hostVars

\* generateCompactDiffSummary cutting file.changes in place with splice
\* where the source copies with filter and slice
CallGenerateCompactDiffSummary_Splice ==
  /\ "parseDiff" \in calls
  /\ summary' = generateCompactDiffSummary(files, maxLines)
  /\ files' = [k \in 1..Len(files) |->
                 [files[k] EXCEPT !.changes = Slice0(@, maxLines)]]
  /\ calls' = calls \cup {"generateCompactDiffSummary"}
  /\ UNCHANGED <<diff, pc, stats, processed, tokens, large, maxLines>>
  /\ UNCHANGED hostVars

\* summary = generateCompactDiffSummary(files, maxLines): reads the files;
\* filter and slice return new arrays (gemini.ts 374-381)
CallGenerateCompactDiffSummary ==
  /\ "parseDiff" \in calls
  /\ summary' = generateCompactDiffSummary(files, maxLines)
  /\ calls' = calls \cup {"generateCompactDiffSummary"}
  /\ UNCHANGED <<diff, pc, files, stats, processed, tokens, large, maxLines>>
  /\ UNCHANGED hostVars

\* processed = processDiffIntelligently(diff): parses diff into files of its
\* own (gemini.ts 419)
CallProcessDiffIntelligently ==
  /\ processed' = processDiffIntelligently(diff)
  /\ calls' = calls \cup {"processDiffIntelligently"}
  /\ UNCHANGED <<diff, pc, files, stats, tokens, large, maxLines, summary>>
  /\ UNCHANGED hostVars

NextCalls ==
  \/ CallParseDiff
  \/ CallCalculateDiffStats
  \/ CallEstimateTokens
  \/ CallIsLargeDiff
  \/ CallGenerateCompactDiffSummary
  \/ CallProcessDiffIntelligently

SpecCalls == InitCalls /\ [][NextCalls]_vars

----------------------------------------------------------------------------
(* matchRepository (src/src/repo-matching.ts)                              *)

\* A Uri is modelled by the text its toString() returns; a repository is a
\* record whose name tells apart two repositories with the same rootUri; an
\* optional value is the empty sequence or a sequence of one element.
MaxRepos == 3

RepoUris == {"/repo-a", "/repo-b", "file:///workspace/repo"}

\* the same Uri with a trailing slash is a different text
SourceControlUris == RepoUris \cup {"file:///workspace/repo/"}

RepoNames == {"first", "second"}

makeRepo(uri, name) == [rootUri |-> uri, name |-> name]

\* makeSC(uri) of the tests, and the SourceControl without a rootUri
makeSC(optUri) == [rootUri |-> optUri]

MatchRepositories ==
  SeqsUpTo({makeRepo(u, n) : u \in RepoUris, n \in RepoNames}, MaxRepos)

MatchSourceControls ==
  {<<>>} \cup {<<makeSC(<<>>)>>}
         \cup {<<makeSC(<<u>>)>> : u \in SourceControlUris}

\* repositories.find(repo => repo.rootUri.toString() === uri)
FindByRootUri(repos, uri) ==
  LET hits == {k \in 1..Len(repos) : repos[k].rootUri = uri}
  IN  IF hits = {} THEN <<>>
      ELSE <<repos[CHOOSE k \in hits : \A j \in hits : k <= j]>>

matchRepository_FirstRepository(repos, optSourceControl) ==
  IF Len(repos) = 0 THEN <<>>
  ELSE LET match == IF optSourceControl # <<>>
                       /\ optSourceControl[1].rootUri # <<>>
                    THEN FindByRootUri(repos, optSourceControl[1].rootUri[1])
                    ELSE <<>>
       IN  IF match # <<>> THEN match ELSE <<repos[1]>>

matchRepository(repos, optSourceControl) ==
  IF Len(repos) = 0 THEN <<>>
  ELSE LET match == IF optSourceControl # <<>>
                       /\ optSourceControl[1].rootUri # <<>>
                    THEN FindByRootUri(repos, optSourceControl[1].rootUri[1])
                    ELSE <<>>
       IN  IF match # <<>> THEN match
           ELSE IF Len(repos) = 1 THEN <<repos[1]>>
           ELSE <<>>

InitMatch ==
  /\ diff = None
  /\ files = None
  /\ stats = None
  /\ processed = None
  /\ tokens = None
  /\ large = None
  /\ maxLines = None
  /\ summary = None
  /\ calls = None
  /\ pc = "start"
  /\ repositories \in MatchRepositories
  /\ sourceControl \in MatchSourceControls
  /\ matched = None
  /\ isGenerating = FALSE
  /\ invocation = None
  /\ apiKeySecret = None
  /\ dontAskToStage = FALSE
  /\ generation = None

\* matched = matchRepository(repositories, sourceControl)
MatchRepository ==
  /\ pc = "start"
  /\ matched' = matchRepository(repositories, sourceControl)
  /\ pc' = "matched"
  /\ UNCHANGED <<diff, files, stats, processed, sizeVars, summaryVars, calls>>
  /\ UNCHANGED <<repositories, sourceControl, isGenerating, invocation,
                 apiKeySecret, dontAskToStage, generation>>

NextMatch == MatchRepository

SpecMatch == InitMatch /\ [][NextMatch]_vars

----------------------------------------------------------------------------
(* The generateCommit command (src/src/extension.ts, src/src/git.ts)       *)

\* The extension host runs one piece of JavaScript at a time: an invocation
\* of handleGenerateCommit runs from one await that has to wait for the
\* host, the user or the network to the next, and each action below is one
\* such run.  A Change[] is modelled by the set of its paths, the text of a
\* staged diff by the sequence of its lines, a message by a TLA+ string.
MaxInvocations == 2
MaxWorkspace == 2

Invocations == 1..MaxInvocations

\* what the command handler leaves alone
pipelineVars == <<diff, pc, files, stats, processed, sizeVars, summaryVars,
                  calls, sourceControl, matched, generation>>

WorkspacePaths == {"a.ts"}

WorkspaceUris == <<"/repo-a", "/repo-b", "/repo-c", "/repo-d">>

\* the Repository objects of the Git API (git.ts 11-26)
WorkspaceRepos(k) ==
  [rootUri : {WorkspaceUris[k]},
   indexChanges : SUBSET WorkspacePaths,
   workingTreeChanges : SUBSET WorkspacePaths,
   inputBox : {""}]

WorkspaceOf(n) ==
  {repos \in [1..n -> UNION {WorkspaceRepos(k) : k \in 1..n}] :
     \A k \in 1..n : repos[k] \in WorkspaceRepos(k)}

Workspaces == UNION {WorkspaceOf(n) : n \in 0..MaxWorkspace}

\* the key the user types into the input box, and the texts the model returns
TypedApiKey == "AIza"
GeneratedMessages == {"", "feat: add a.ts", "fix: typo"}

\* tokenLimit: config.get<number>('tokenLimit', 20000)
TOKEN_LIMIT == 20000

\* getRepository(): the index of the repository it returns, 0 for undefined
getRepository == IF Len(repositories) = 0 THEN 0 ELSE 1

\* repo.diff(true): one line for each staged path, the empty text for none
RECURSIVE StagedLines(_, _)
StagedLines(repo, paths) ==
  IF paths = {} THEN <<>>
  ELSE LET p == CHOOSE x \in paths : TRUE
       IN  <<"diff --git " \o repo.rootUri \o "/" \o p>>
             \o StagedLines(repo, paths \ {p})

RepoDiff(repo) == StagedLines(repo, repo.indexChanges)

\* git stages every working tree change of the repository
StageAll(repo) ==
  [repo EXCEPT !.indexChanges = @ \cup repo.workingTreeChanges,
               !.workingTreeChanges = {}]

\* an invocation: the locals of handleGenerateCommit (commitMessage is what
\* generateCommitMessage returned, if it did), the repository the
\* user ran the command for (0: none), and what the invocation has done:
\* each effect is the call made and the index of the repository it was made
\* on (0 for a call on no repository)
IdleInvocation ==
  [pc |-> "idle", target |-> 0, apiKey |-> <<>>, diff |-> <<>>,
   commitMessage |-> <<>>, effects |-> {}]

Log(r, op, k) == [r EXCEPT !.effects = @ \cup {<<op, k>>}]

\* the invocation goes on to its next await
Await(i, r, next) ==
  /\ invocation' = [invocation EXCEPT ![i] = [r EXCEPT !.pc = next]]
  /\ UNCHANGED isGenerating

\* a handler whose exits leave the flag as it is
Finally_KeepsFlag(i, r) ==
  /\ invocation' =
       [invocation EXCEPT ![i] = [Log(r, "resetFlag", 0) EXCEPT !.pc = "done"]]
  /\ UNCHANGED isGenerating

\* the invocation returns or throws inside the try block:
\* finally { isGenerating = false; } (extension.ts 145-148)
Finally(i, r) ==
  /\ invocation' =
       [invocation EXCEPT ![i] = [Log(r, "resetFlag", 0) EXCEPT !.pc = "done"]]
  /\ isGenerating' = FALSE

\* the guard of handleGenerateCommit (extension.ts 50-58)
Guard_Unchecked(i, r) ==
  /\ isGenerating' = TRUE
  /\ invocation' = [invocation EXCEPT ![i] = [r EXCEPT !.pc = "getApiKey"]]

Guard(i, r) ==
  IF isGenerating
  THEN /\ invocation' =
            [invocation EXCEPT
               ![i] = [Log(r, "warning", 0) EXCEPT !.pc = "rejected"]]
       /\ UNCHANGED isGenerating
  ELSE /\ isGenerating' = TRUE
       /\ invocation' = [invocation EXCEPT ![i] = [r EXCEPT !.pc = "getApiKey"]]

\* getStagedDiff asking whatever the stored preference is
EnterGetStagedDiff_AlwaysAsks(i, r) ==
  LET repo == getRepository
      entered == Log(r, "getStagedDiff", 0)
      read == Log(entered, "state", repo)
  IN  IF repo = 0 THEN Finally(i, entered)
      ELSE IF repositories[repo].indexChanges # {}
      THEN Await(i, read, "repoDiff")
      ELSE IF repositories[repo].workingTreeChanges = {}
      THEN Finally(i, read)
      ELSE Await(i, Log(read, "showInformationMessage", 0), "stageChoice")

\* getStagedDiff up to its first await (git.ts 115-172)
EnterGetStagedDiff(i, r) ==
  LET repo == getRepository
      entered == Log(r, "getStagedDiff", 0)
      read == Log(entered, "state", repo)
  IN  IF repo = 0 THEN Finally(i, entered)
      ELSE IF repositories[repo].indexChanges # {}
      THEN Await(i, read, "repoDiff")
      ELSE IF repositories[repo].workingTreeChanges = {}
      THEN Finally(i, read)
      ELSE IF dontAskToStage
      THEN Await(i, Log(read, "stageAllChanges", 0), "stageAll")
      ELSE Await(i, Log(read, "showInformationMessage", 0), "stageChoice")

InitHost ==
  /\ diff = None
  /\ files = None
  /\ stats = None
  /\ processed = None
  /\ tokens = None
  /\ large = None
  /\ maxLines = None
  /\ summary = None
  /\ calls = None
  /\ pc = "start"
  /\ sourceControl = None
  /\ matched = None
  /\ repositories \in Workspaces
  /\ isGenerating = FALSE
  /\ invocation = [i \in Invocations |-> IdleInvocation]
  /\ apiKeySecret \in {<<>>, <<TypedApiKey>>}
  /\ dontAskToStage \in BOOLEAN
  /\ generation = None

\* the user runs the command for a repository of the workspace:
\* the guard, then await getApiKey(context) (extension.ts 12-17, 48-61)
HandleGenerateCommit(i) ==
  /\ invocation[i].pc = "idle"
  /\ \E t \in (IF Len(repositories) = 0 THEN {0} ELSE 1..Len(repositories)) :
       Guard(i, [invocation[i] EXCEPT !.target = t])
  /\ UNCHANGED <<repositories, apiKeySecret, dontAskToStage>>
  /\ UNCHANGED pipelineVars

\* getApiKey returns the stored key (extension.ts 61-80)
GetApiKeyReturns(i) ==
  /\ invocation[i].pc = "getApiKey"
  /\ LET r == [invocation[i] EXCEPT !.apiKey = apiKeySecret]
     IN  IF apiKeySecret = <<>>
         THEN Await(i, r, "setKeyChoice")
         ELSE EnterGetStagedDiff(i, r)
  /\ UNCHANGED <<repositories, apiKeySecret, dontAskToStage>>
  /\ UNCHANGED pipelineVars

\* the user answers 'Would you like to set it now?' (extension.ts 64-74)
SetKeyChoice(i) ==
  /\ invocation[i].pc = "setKeyChoice"
  /\ \E choice \in {"Yes", "No", "undefined"} :
       IF choice # "Yes"
       THEN Finally(i, invocation[i])
       ELSE Await(i, invocation[i], "promptKey")
  /\ UNCHANGED <<repositories, apiKeySecret, dontAskToStage>>
  /\ UNCHANGED pipelineVars

\* promptForApiKey returns (config.ts 37-57, extension.ts 74-80)
PromptKeyReturns(i) ==
  /\ invocation[i].pc = "promptKey"
  /\ \E typed \in {<<>>, <<TypedApiKey>>} :
       IF typed = <<>>
       THEN /\ Finally(i, invocation[i])
            /\ UNCHANGED apiKeySecret
       ELSE /\ apiKeySecret' = typed
            /\ EnterGetStagedDiff(i, [invocation[i] EXCEPT !.apiKey = typed])
  /\ UNCHANGED <<repositories, dontAskToStage>>
  /\ UNCHANGED pipelineVars

\* the user answers 'Would you like to stage all your changes'
\* (git.ts 147-164)
StageChoice(i) ==
  /\ invocation[i].pc = "stageChoice"
  /\ \E choice \in {"undefined", "Yes", "Yes, don't ask again"} :
       IF choice = "undefined"
       THEN /\ Finally(i, invocation[i])
            /\ UNCHANGED dontAskToStage
       ELSE /\ dontAskToStage' =
                 IF choice = "Yes, don't ask again" THEN TRUE
                 ELSE dontAskToStage
            /\ Await(i, Log(invocation[i], "stageAllChanges", 0), "stageAll")
  /\ UNCHANGED <<repositories, apiKeySecret>>
  /\ UNCHANGED pipelineVars

\* stageAllChanges returns (git.ts 72-106): the git.stageAll command of the
\* host stages in a repository of the host's choosing; when it throws, the
\* fallback stages in getRepository()
StageAllReturns(i) ==
  /\ invocation[i].pc = "stageAll"
  /\ \/ \E k \in 1..Len(repositories) :
          /\ repositories' = [repositories EXCEPT ![k] = StageAll(@)]
          /\ Await(i, Log(invocation[i], "stageAll", k), "repoDiff")
     \/ LET repo == getRepository
        IN  IF repo = 0 \/ repositories[repo].workingTreeChanges = {}
            THEN /\ Finally(i, invocation[i])
                 /\ UNCHANGED repositories
            ELSE \/ /\ repositories' =
                         [repositories EXCEPT ![repo] = StageAll(@)]
                    /\ Await(i, Log(invocation[i], "add", repo), "repoDiff")
                 \/ /\ Finally(i, invocation[i])
                    /\ UNCHANGED repositories
  /\ UNCHANGED <<apiKeySecret, dontAskToStage>>
  /\ UNCHANGED pipelineVars

\* repo.diff(true) returns or throws; then buildPrompt and
\* await countTokens (git.ts 171-178, extension.ts 80-90)
RepoDiffReturns(i) ==
  /\ invocation[i].pc = "repoDiff"
  /\ \/ Finally(i, invocation[i])
     \/ LET repo == getRepository
            text == RepoDiff(repositories[repo])
            r == [Log(invocation[i], "diff", repo) EXCEPT !.diff = text]
        IN  IF text = <<>>
            THEN Finally(i, r)
            ELSE Await(i, Log(r, "countTokens", 0), "countTokens")
  /\ UNCHANGED <<repositories, apiKeySecret, dontAskToStage>>
  /\ UNCHANGED pipelineVars

\* countTokens returns the count of the API or, when the API fails, the
\* estimate (gemini.ts 187-210, extension.ts 90-110)
CountTokensReturns(i) ==
  /\ invocation[i].pc = "countTokens"
  /\ \E tokenCount \in {TOKEN_LIMIT, TOKEN_LIMIT + 1} :
       IF tokenCount > TOKEN_LIMIT
       THEN Await(i, Log(invocation[i], "showWarningMessage", 0),
                  "limitChoice")
       ELSE Await(i, Log(invocation[i], "generateCommitMessage", 0),
                  "generate")
  /\ UNCHANGED <<repositories, apiKeySecret, dontAskToStage>>
  /\ UNCHANGED pipelineVars

\* the user answers the large-prompt warning (extension.ts 93-110)
LimitChoice(i) ==
  /\ invocation[i].pc = "limitChoice"
  /\ \E choice \in {"undefined", "Continue", "Change Threshold"} :
       IF choice = "Continue"
       THEN Await(i, Log(invocation[i], "generateCommitMessage", 0),
                  "generate")
       ELSE IF choice = "Change Threshold"
       THEN Finally(i, Log(invocation[i], "openSettings", 0))
       ELSE Finally(i, invocation[i])
  /\ UNCHANGED <<repositories, apiKeySecret, dontAskToStage>>
  /\ UNCHANGED pipelineVars

\* a handler that writes whatever generateCommitMessage returned
GenerateReturns_WritesEmpty(i) ==
  /\ invocation[i].pc = "generate"
  /\ \/ /\ Finally(i, invocation[i])
        /\ UNCHANGED repositories
     \/ \E commitMessage \in GeneratedMessages :
          LET repo == getRepository
              r == [invocation[i] EXCEPT !.commitMessage = <<commitMessage>>]
          IN  IF repo = 0
              THEN /\ Finally(i, r)
                   /\ UNCHANGED repositories
              ELSE /\ repositories' =
                        [repositories EXCEPT ![repo].inputBox = commitMessage]
                   /\ Finally(i, Log(r, "inputBox", repo))
  /\ UNCHANGED <<apiKeySecret, dontAskToStage>>
  /\ UNCHANGED pipelineVars

\* generateCommitMessage returns or throws; setCommitMessage writes the
\* input box of getRepository() (extension.ts 116-148, git.ts 181-196)
GenerateReturns(i) ==
  /\ invocation[i].pc = "generate"
  /\ \/ /\ Finally(i, invocation[i])
        /\ UNCHANGED repositories
     \/ \E commitMessage \in GeneratedMessages :
          LET repo == getRepository
              r == [invocation[i] EXCEPT !.commitMessage = <<commitMessage>>]
          IN  IF commitMessage = "" \/ repo = 0
              THEN /\ Finally(i, r)
                   /\ UNCHANGED repositories
              ELSE /\ repositories' =
                        [repositories EXCEPT ![repo].inputBox = commitMessage]
                   /\ Finally(i, Log(r, "inputBox", repo))
  /\ UNCHANGED <<apiKeySecret, dontAskToStage>>
  /\ UNCHANGED pipelineVars

HostStep(i) ==
  \/ HandleGenerateCommit(i)
  \/ GetApiKeyReturns(i)
  \/ SetKeyChoice(i)
  \/ PromptKeyReturns(i)
  \/ StageChoice(i)
  \/ StageAllReturns(i)
  \/ RepoDiffReturns(i)
  \/ CountTokensReturns(i)
  \/ LimitChoice(i)
  \/ GenerateReturns(i)

NextHost == \E i \in Invocations : HostStep(i)

SpecHost == InitHost /\ [][NextHost]_vars

\* the gemini-commits.resetAutoStage command (extension.ts 26-31):
\* resetAutoStagePreference (git.ts 110-113)
ResetAutoStagePreference ==
  /\ dontAskToStage' = FALSE
  /\ UNCHANGED <<repositories, isGenerating, invocation, apiKeySecret>>
  /\ UNCHANGED pipelineVars

\* the two commands together
NextStage ==
  \/ NextHost
  \/ ResetAutoStagePreference

SpecStage == InitHost /\ [][NextStage]_vars

----------------------------------------------------------------------------
(* Sections with several hunks, and hunks with every kind of line          *)

MaxHunksLines == 5  \* lines after the first hunk header, over HunksVocabulary
MaxBodyLines == 3   \* lines after the header of a text over BodyVocabulary

\* a second hunk header, without line counts
LineHunkSecond == <<"@", "@", " ", "-", "5", " ", "+", "7", " ", "@", "@">>
LineFileOld == <<"-", "-", "-", " ", "a", "/", "x">>
LineFileNew == <<"+", "+", "+", " ", "b", "/", "x">>
LineNoNewline == <<"\\", " ", "N", "o", " ", "n", "e", "w", "l", "i", "n", "e", " ", "a", "t", " ", "e", "n", "d", " ", "o", "f", " ", "f", "i", "l", "e">>
LineAddPlus == <<"+", "+", "a">>

HunksVocabulary == {LineHunk, LineHunkSecond, LineAdd, LineDel}

BodyVocabulary ==
  { LineHunk, LineAdd, LineDel, LineCtx, LineFileOld, LineFileNew,
    LineNoNewline, LineEmpty, LineAddPlus }

HunkInputs ==
  { Join(<<HeaderLine(PathX, PathX), LineHunk>> \o ls) :
      ls \in SeqsUpTo(HunksVocabulary, MaxHunksLines) }
    \cup { Join(<<HeaderLine(PathX, PathX)>> \o ls) :
             ls \in SeqsUpTo(BodyVocabulary, MaxBodyLines) }

InitHunk ==
  /\ diff \in HunkInputs
  /\ files = None
  /\ pc = "start"
  /\ stats = None
  /\ processed = None
  /\ tokens = None
  /\ large = None
  /\ maxLines = None
  /\ summary = None
  /\ calls = None
  /\ HostUnused

NextHunk ==
  \/ ParseDiff
  \/ CalculateDiffStats

SpecHunk == InitHunk /\ [][NextHunk]_vars

----------------------------------------------------------------------------
(* generateCommitMessage (src/src/gemini.ts 521-658) and the prompt        *)
(* handleGenerateCommit counts for it (src/src/extension.ts 85-90)         *)

\* An error message is modelled by the sequence of its words, `includes` by
\* the presence of a word; a prompt by the sequence of the pieces the
\* template joins, of which the diff is the text; a model by its name.
MaxErrorWords == 2

ErrorWords ==
  {"API_KEY_INVALID", "PERMISSION_DENIED", "RESOURCE_EXHAUSTED", "quota",
   "MODEL_NOT_FOUND", "INVALID_ARGUMENT", "fetch", "network", "ECONNREFUSED",
   "failed"}

\* what generateContent rejects with: message, status and response.status,
\* each of them optional
Errors ==
  [message : SeqsUpTo(ErrorWords, MaxErrorWords),
   status : {<<>>, <<400>>, <<403>>, <<404>>, <<429>>, <<500>>},
   responseStatus : {<<>>, <<404>>}]

\* what response.text() returns
ResponseTexts ==
  { <<>>, <<"f", "i", "x">>, <<" ", "\"", "f", "i", "x", "\"", "\n">>,
    <<"'", "f", "i", "x">> }

\* what listAvailableModels resolves with (sorted by name), <<>> when it
\* throws
Listings ==
  { <<>>, << <<>> >>, << <<"gemini-2.5-flash", "gemini-flash-latest">> >>,
    << <<"gemini-2.0-flash", "gemini-2.5-pro">> >>,
    << <<"gemini-x", "gemma-x">> >> }

ConfiguredModels == {"gemini-flash-latest", "gemini-1.0-pro"}

\* errorMessage.includes(word)
Includes(message, word) == \E k \in 1..Len(message) : message[k] = word

\* error?.message || String(error)
ErrorMessage(error) ==
  IF error.message # <<>> THEN error.message ELSE <<"Error">>

\* error?.status || error?.response?.status
ErrorStatus(error) ==
  IF error.status # <<>> THEN error.status ELSE error.responseStatus

\* ErrorBranch testing for the missing model before the other kinds
ErrorBranch_NotFoundFirst(error, triedFallback) ==
  LET errorMessage == ErrorMessage(error)
      errorStatus == ErrorStatus(error)
  IN  IF (Includes(errorMessage, "MODEL_NOT_FOUND") \/ errorStatus = <<404>>)
         /\ ~triedFallback
      THEN "retry"
      ELSE IF Includes(errorMessage, "API_KEY_INVALID") \/ errorStatus = <<400>>
      THEN "Invalid API Key"
      ELSE IF Includes(errorMessage, "PERMISSION_DENIED")
              \/ errorStatus = <<403>>
      THEN "Permission denied"
      ELSE IF Includes(errorMessage, "RESOURCE_EXHAUSTED")
              \/ Includes(errorMessage, "quota") \/ errorStatus = <<429>>
      THEN "Limit exceeded"
      ELSE IF Includes(errorMessage, "INVALID_ARGUMENT")
              \/ errorStatus = <<400>>
      THEN "Invalid argument"
      ELSE IF Includes(errorMessage, "fetch")
              \/ Includes(errorMessage, "network")
              \/ Includes(errorMessage, "ECONNREFUSED")
      THEN "Connection error"
      ELSE "Error generating commit"

\* the branch of the catch block an error takes (gemini.ts 596-657): the
\* message it is reported under, or "retry" for the fallback
ErrorBranch(error, triedFallback) ==
  LET errorMessage == ErrorMessage(error)
      errorStatus == ErrorStatus(error)
  IN  IF Includes(errorMessage, "API_KEY_INVALID") \/ errorStatus = <<400>>
      THEN "Invalid API Key"
      ELSE IF Includes(errorMessage, "PERMISSION_DENIED")
              \/ errorStatus = <<403>>
      THEN "Permission denied"
      ELSE IF Includes(errorMessage, "RESOURCE_EXHAUSTED")
              \/ Includes(errorMessage, "quota") \/ errorStatus = <<429>>
      THEN "Limit exceeded"
      ELSE IF (Includes(errorMessage, "MODEL_NOT_FOUND")
                 \/ errorStatus = <<404>>) /\ ~triedFallback
      THEN "retry"
      ELSE IF Includes(errorMessage, "INVALID_ARGUMENT")
              \/ errorStatus = <<400>>
      THEN "Invalid argument"
      ELSE IF Includes(errorMessage, "fetch")
              \/ Includes(errorMessage, "network")
              \/ Includes(errorMessage, "ECONNREFUSED")
      THEN "Connection error"
      ELSE "Error generating commit"

\* the priority order of getBestAvailableModel (gemini.ts 132-160)
priorityModels ==
  << "gemini-flash-latest", "gemini-flash-lite-latest", "gemini-pro-latest",
     "gemini-2.5-flash", "gemini-2.5-flash-lite", "gemini-2.5-pro",
     "gemini-2.0-flash-001", "gemini-2.0-flash", "gemini-2.0-flash-lite-001",
     "gemini-2.0-flash-lite", "gemini-2.0-flash-exp", "gemini-exp-1206",
     "gemini-3-pro-preview", "gemma-3-27b-it", "gemma-3-12b-it",
     "gemma-3-4b-it", "gemma-3-1b-it" >>

\* getBestAvailableModel on what listAvailableModels did (gemini.ts 121-177)
getBestAvailableModel(listing) ==
  IF listing = <<>> \/ listing[1] = <<>> THEN "gemini-flash-latest"
  ELSE LET models == listing[1]
           found == {p \in 1..Len(priorityModels) :
                       \E k \in 1..Len(models) : models[k] = priorityModels[p]}
       IN  IF found # {}
           THEN priorityModels[CHOOSE p \in found : \A q \in found : p <= q]
           ELSE models[1]

\* buildPrompt(diff, language, isCompacted = false, stats?) (gemini.ts
\* 521-566): the rules, the language instruction, the context note, the
\* fenced diff, the guidance and the closing instructions
buildPrompt(d, language, isCompacted, optStats) ==
  << "CONVENTIONAL_COMMITS_RULES",
     IF language = "es" THEN "Generate the commit message in SPANISH."
     ELSE "Generate the commit message in ENGLISH.",
     IF isCompacted /\ optStats # <<>>
     THEN <<optStats[1].totalFiles, optStats[1].totalChanges>>
     ELSE <<>>,
     "Analyze the following git diff",
     d,
     IF isCompacted THEN "For this large commit:"
     ELSE "Analyze the code changes carefully:",
     "Generate a commit message with:" >>

\* text.trim()
RECURSIVE Trim(_)
Trim(text) ==
  IF text = <<>> THEN text
  ELSE IF Head(text) \in WhiteSpace THEN Trim(Tail(text))
  ELSE IF text[Len(text)] \in WhiteSpace
  THEN Trim(SubSeq(text, 1, Len(text) - 1))
  ELSE text

\* text.replace(/^["']|["']$/g, '')
StripQuotes(text) ==
  LET quotes == {"\"", "'"}
      tail == IF text # <<>> /\ Head(text) \in quotes THEN Tail(text)
              ELSE text
  IN  IF tail # <<>> /\ tail[Len(tail)] \in quotes
      THEN SubSeq(tail, 1, Len(tail) - 1)
      ELSE tail

\* texts of one section
GenerateDiffs ==
  { Join(<<HeaderLine(PathX, PathX), LineHunk, LineAdd>>),
    Join(<<HeaderLine(PathX, PathY), LineHunk, LineDel>>) }

\* a call of generateCommitMessage not yet made, for a configuration
NewGeneration(language, model) ==
  [pc |-> "start", language |-> language, model |-> model, counted |-> <<>>,
   requests |-> <<>>, error |-> <<>>, listing |-> <<>>, response |-> <<>>,
   threw |-> FALSE, kind |-> "", returned |-> <<>>]

\* what generateCommitMessage leaves alone
generationFrame ==
  <<diff, pc, files, stats, sizeVars, summaryVars, calls,
    repositories, sourceControl, matched, isGenerating, invocation,
    apiKeySecret, dontAskToStage>>

InitGenerate ==
  /\ diff \in GenerateDiffs
  /\ files = None
  /\ pc = "start"
  /\ stats = None
  /\ processed = None
  /\ tokens = None
  /\ large = None
  /\ maxLines = None
  /\ summary = None
  /\ calls = None
  /\ repositories = None
  /\ sourceControl = None
  /\ matched = None
  /\ isGenerating = FALSE
  /\ invocation = None
  /\ apiKeySecret = None
  /\ dontAskToStage = FALSE
  /\ generation \in
       {NewGeneration(l, m) : l \in {"en", "es"}, m \in ConfiguredModels}

\* handleGenerateCommit: prompt = buildPrompt(diff, config.language), whose
\* tokens it counts (extension.ts 86-90)
CountPrompt ==
  /\ generation.pc = "start"
  /\ generation' =
       [generation EXCEPT
          !.pc = "counted",
          !.counted = <<buildPrompt(diff, generation.language, FALSE, <<>>)>>]
  /\ UNCHANGED <<generationFrame, processed>>

\* generateCommitMessage up to its first await: the first generateContent
\* request (gemini.ts 568-590)
GenerateCommitMessage ==
  /\ generation.pc = "counted"
  /\ processed' = processDiffIntelligently(diff)
  /\ generation' =
       [generation EXCEPT
          !.pc = "first",
          !.requests =
             <<[model |-> generation.model,
                prompt |-> buildPrompt(processed'.content, generation.language,
                                       processed'.wasCompacted,
                                       <<processed'.stats>>)]>>]
  /\ UNCHANGED generationFrame

\* the first request resolves, or the try block throws (gemini.ts 590-657)
FirstReturns ==
  /\ generation.pc = "first"
  /\ \/ \E text \in ResponseTexts :
          generation' =
            [generation EXCEPT !.pc = "done", !.response = <<text>>,
                               !.returned = StripQuotes(Trim(text))]
     \/ \E error \in Errors :
          LET branch == ErrorBranch(error, FALSE)
          IN  generation' =
                IF branch = "retry"
                THEN [generation EXCEPT !.pc = "bestModel",
                                        !.error = <<error>>]
                ELSE [generation EXCEPT !.pc = "done", !.error = <<error>>,
                                        !.threw = TRUE, !.kind = branch]
  /\ UNCHANGED <<generationFrame, processed>>

\* getBestAvailableModel resolves; the second generateContent request
\* (gemini.ts 621-633)
BestModelReturns ==
  /\ generation.pc = "bestModel"
  /\ processed' = processDiffIntelligently(diff)
  /\ \E listing \in Listings :
       generation' =
         [generation EXCEPT
            !.pc = "retry",
            !.listing = <<listing>>,
            !.requests =
               Append(@, [model |-> getBestAvailableModel(listing),
                          prompt |-> buildPrompt(processed'.content,
                                                 generation.language,
                                                 processed'.wasCompacted,
                                                 <<processed'.stats>>)])]
  /\ UNCHANGED generationFrame

\* the second request resolves, or the inner try block throws
\* (gemini.ts 633-643)
RetryReturns ==
  /\ generation.pc = "retry"
  /\ \/ \E text \in ResponseTexts :
          generation' =
            [generation EXCEPT !.pc = "done", !.response = <<text>>,
                               !.returned = StripQuotes(Trim(text))]
     \/ generation' =
          [generation EXCEPT !.pc = "done", !.threw = TRUE,
                             !.kind = "Model not found"]
  /\ UNCHANGED <<generationFrame, processed>>

\* the same call on the texts the summaries are checked on, small and large
InitPrompt ==
  /\ diff \in SummaryInputs \cup LargeInputs
  /\ files = None
  /\ pc = "start"
  /\ stats = None
  /\ processed = None
  /\ tokens = None
  /\ large = None
  /\ maxLines = None
  /\ summary = None
  /\ calls = None
  /\ repositories = None
  /\ sourceControl = None
  /\ matched = None
  /\ isGenerating = FALSE
  /\ invocation = None
  /\ apiKeySecret = None
  /\ dontAskToStage = FALSE
  /\ generation \in
       {NewGeneration(l, m) : l \in {"en", "es"}, m \in ConfiguredModels}

NextPrompt ==
  \/ CountPrompt
  \/ GenerateCommitMessage

SpecPrompt == InitPrompt /\ [][NextPrompt]_vars

NextGenerate ==
  \/ CountPrompt
  \/ GenerateCommitMessage
  \/ FirstReturns
  \/ BestModelReturns
  \/ RetryReturns

SpecGenerate == InitGenerate /\ [][NextGenerate]_vars

----------------------------------------------------------------------------
(* Vocabulary of the properties                                            *)

\* the characters of the input texts
Char == UNION { {d[k] : k \in 1..Len(d)} : d \in Inputs }

IsString(s) == s \in Seq(Char)

FileChangeFields ==
  {"path", "additions", "deletions", "changes", "isBinary", "isNew",
   "isDeleted", "isRenamed"}

\* c is a CodeChange (gemini.ts 32-36)
IsCodeChange(c) ==
  /\ DOMAIN c \in {{"type", "line"}, {"type", "line", "lineNumber"}}
  /\ c.type \in {"addition", "deletion", "context"}
  /\ IsString(c.line)
  /\ "lineNumber" \in DOMAIN c => c.lineNumber \in Int

\* f is a FileChange (gemini.ts 17-27)
IsFileChange(f) ==
  /\ DOMAIN f \in {FileChangeFields, FileChangeFields \cup {"oldPath"}}
  /\ IsString(f.path)
  /\ f.additions \in Nat
  /\ f.deletions \in Nat
  /\ \A k \in 1..Len(f.changes) : IsCodeChange(f.changes[k])
  /\ {f.isBinary, f.isNew, f.isDeleted, f.isRenamed} \subseteq BOOLEAN
  /\ "oldPath" \in DOMAIN f => IsString(f.oldPath)

\* the lines of a section, and whether one of them starts with prefix
SectionLines(section) == SplitLines(section)
HasLine(section, prefix) ==
  \E k \in 1..Len(SectionLines(section)) :
     StartsWith(SectionLines(section)[k], prefix)

\* the new path the first line of a section carries for the parser: group 2
\* of the header pattern, empty when the line has no "a/... b/..." pair
HeaderPath(section) ==
  LET m == FilePathMatch(SectionLines(section)[1])
  IN  IF m = Null THEN <<>> ELSE m[3]

\* the sections a non-empty path is recovered from, in input order
EmittedSections(d) ==
  SelectSeq(FileSections(d), LAMBDA section : HeaderPath(section) # <<>>)

\* files[i] was built from EmittedSections(diff)[i]
Aligned == Len(files) = Len(EmittedSections(diff))

\* the number of entries of type t
CountType(changes, t) ==
  Cardinality({k \in 1..Len(changes) : changes[k].type = t})

\* the entries that carry a lineNumber, in order
Numbered(changes) ==
  SelectSeq(changes, LAMBDA c : "lineNumber" \in DOMAIN c)

\* line k of the section is a hunk header of the expected shape
IsMatchingHeader(lines, k) ==
  StartsWith(lines[k], AT_AT) /\ HunkHeaderMatch(lines[k]) # Null

\* every "@@" line of the section has the expected shape and a post-change
\* start of at least 1
AllHeadersPositive(section) ==
  \A k \in 1..Len(SectionLines(section)) :
     StartsWith(SectionLines(section)[k], AT_AT)
       => /\ IsMatchingHeader(SectionLines(section), k)
          /\ ParseInt(HunkHeaderMatch(SectionLines(section)[k])[2]) >= 1

\* the lines of the section that an addition or context entry comes from:
\* after the first "@@" line, in a section without a binary marker
NumberedLines(section) ==
  LET lines == SectionLines(section)
  IN  {k \in 1..Len(lines) :
         /\ \E h \in 1..(k - 1) : StartsWith(lines[h], AT_AT)
         /\ ~HasLine(section, BINARY_FILES)
         /\ ~StartsWith(lines[k], AT_AT)
         /\ \/ StartsWith(lines[k], PLUS) /\ ~StartsWith(lines[k], PLUS3)
            \/ StartsWith(lines[k], SPACE)}

\* no hunk header of the expected shape lies between the lines a and b
SameHunk(section, a, b) ==
  \A h \in (a + 1)..(b - 1) : ~IsMatchingHeader(SectionLines(section), h)

\* the pairs <<old path, new path>> of Paths whose header line is `line`
HeaderPathsOf(line) ==
  {pq \in Paths \X Paths : line = A_SLASH \o pq[1] \o SP_B_SLASH \o pq[2]}

----------------------------------------------------------------------------
(* Properties of parseDiff                                                 *)

\* C1: parseDiff is total: on every text, malformed ones included, it
\* returns a sequence of FileChange records (no dereference of a failed match
\* raises), and on the empty text it returns the empty sequence.
C1_ParseDiffTotal ==
  pc = "parsed" =>
    /\ \A i \in 1..Len(files) : IsFileChange(files[i])
    /\ diff = <<>> => files = <<>>

\* a text with sections, none of which yields a record
C1_Witness ==
  /\ pc = "parsed"
  /\ Len(FileSections(diff)) >= 2
  /\ \E k \in 1..Len(FileSections(diff)) :
        FilePathMatch(SectionLines(FileSections(diff)[k])[1]) = Null
  /\ files = <<>>

\* C2: in every FileChange returned by parseDiff, additions is the number of
\* entries of type addition and deletions the number of entries of type
\* deletion; context entries count for neither.
C2_CountsMatchChanges ==
  pc = "parsed" =>
    \A i \in 1..Len(files) :
       /\ files[i].additions = CountType(files[i].changes, "addition")
       /\ files[i].deletions = CountType(files[i].changes, "deletion")

\* a file with an addition, a deletion and a context entry
C2_Witness ==
  /\ pc = "parsed"
  /\ \E i \in 1..Len(files) :
        /\ files[i].additions >= 1
        /\ files[i].deletions >= 1
        /\ CountType(files[i].changes, "context") >= 1

\* C3: a FileChange with isBinary has no changes and zero counts, wherever in
\* its section the "Binary files" line stands, and its isNew and isDeleted
\* still tell whether the section has a "new file mode" and a "deleted file
\* mode" line.
C3_BinaryHasNoChanges ==
  pc = "parsed" =>
    /\ Aligned
    /\ \A i \in 1..Len(files) :
          files[i].isBinary =>
            /\ files[i].changes = <<>>
            /\ files[i].additions = 0
            /\ files[i].deletions = 0
            /\ files[i].isNew
                 <=> HasLine(EmittedSections(diff)[i], NEW_FILE_MODE)
            /\ files[i].isDeleted
                 <=> HasLine(EmittedSections(diff)[i], DELETED_FILE_MODE)

\* the "Binary files" line comes after a hunk header and an added line
C3_Witness ==
  /\ pc = "parsed"
  /\ diff = Join(<<HeaderLine(PathX, PathX), LineHunk, LineAdd, LineBinary>>)
  /\ Len(files) = 1
  /\ files[1].isBinary

\* C4 as stated: no FileChange returned by parseDiff has both isNew and
\* isDeleted, whatever the text.
C4_NewDeletedExclusive ==
  pc = "parsed" =>
    \A i \in 1..Len(files) : ~(files[i].isNew /\ files[i].isDeleted)

\* C4 amended: isNew holds exactly when the section has a line starting with
\* "new file mode" and isDeleted exactly when it has a line starting with
\* "deleted file mode"; so a FileChange has both only when its section holds
\* both markers.
C4_FlagsFollowMarkers ==
  pc = "parsed" =>
    /\ Aligned
    /\ \A i \in 1..Len(files) :
          /\ files[i].isNew
               <=> HasLine(EmittedSections(diff)[i], NEW_FILE_MODE)
          /\ files[i].isDeleted
               <=> HasLine(EmittedSections(diff)[i], DELETED_FILE_MODE)

\* a section with both markers yields a FileChange with both flags
C4_Witness ==
  /\ pc = "parsed"
  /\ \E i \in 1..Len(files) : files[i].isNew /\ files[i].isDeleted

\* C5 as stated: every addition and context entry carries a lineNumber >= 1
\* and every deletion entry carries none, also after a hunk header with a
\* post-change start of 0 or of another shape.
C5_LineNumbersPositive ==
  pc = "parsed" =>
    \A i \in 1..Len(files) :
       \A k \in 1..Len(files[i].changes) :
          LET c == files[i].changes[k]
          IN  IF c.type = "deletion"
              THEN "lineNumber" \notin DOMAIN c
              ELSE "lineNumber" \in DOMAIN c /\ c.lineNumber >= 1

\* C5 amended: every addition and context entry carries a lineNumber >= 0
\* and every deletion entry carries none; the lineNumber is >= 1 when every
\* "@@" line of the section has the expected shape and a post-change start
\* of at least 1.
C5_LineNumbersNatural ==
  pc = "parsed" =>
    /\ Aligned
    /\ \A i \in 1..Len(files) :
          \A k \in 1..Len(files[i].changes) :
             LET c == files[i].changes[k]
             IN  IF c.type = "deletion"
                 THEN "lineNumber" \notin DOMAIN c
                 ELSE /\ "lineNumber" \in DOMAIN c
                      /\ c.lineNumber \in Nat
                      /\ AllHeadersPositive(EmittedSections(diff)[i])
                           => c.lineNumber >= 1

\* a section with well-formed headers yields a numbered addition and an
\* unnumbered deletion
C5_Witness ==
  /\ pc = "parsed"
  /\ \E i \in 1..Len(files) :
        /\ Aligned
        /\ AllHeadersPositive(EmittedSections(diff)[i])
        /\ \E k \in 1..Len(files[i].changes) :
              /\ files[i].changes[k].type = "addition"
              /\ files[i].changes[k].lineNumber >= 1
        /\ \E k \in 1..Len(files[i].changes) :
              files[i].changes[k].type = "deletion"

\* C6 as stated: within one FileChange the lineNumbers of the addition and
\* context entries, in sequence order, strictly increase.
C6_LineNumbersIncrease ==
  pc = "parsed" =>
    \A i \in 1..Len(files) :
       LET n == Numbered(files[i].changes)
       IN  \A j \in 1..(Len(n) - 1) : n[j].lineNumber < n[j + 1].lineNumber

\* C6 amended: within one hunk (no hunk header of the expected shape between
\* the two lines) each addition or context entry has the lineNumber of the
\* previous one plus 1; a hunk header restarts the numbering at its own
\* start, which can be lower.
C6_LineNumbersIncreaseInHunk ==
  pc = "parsed" =>
    /\ Aligned
    /\ \A i \in 1..Len(files) :
          LET n == Numbered(files[i].changes)
              at == NumberedLines(EmittedSections(diff)[i])
          IN  /\ Len(n) = Cardinality(at)
              /\ \A j \in 1..(Len(n) - 1) :
                    SameHunk(EmittedSections(diff)[i], Nth(at, j), Nth(at, j + 1))
                      => n[j + 1].lineNumber = n[j].lineNumber + 1

\* two numbered entries of one hunk, the first seeded by the hunk header
C6_Witness ==
  /\ pc = "parsed"
  /\ \E i \in 1..Len(files) :
        LET n == Numbered(files[i].changes)
        IN  /\ Len(n) >= 2
            /\ n[1].lineNumber = 12
            /\ n[2].lineNumber = 13

\* C7: for a section whose header line is "a/P b/Q", parseDiff sets path to
\* Q; when P differs from Q it sets isRenamed and oldPath = P, and when P
\* equals Q it leaves oldPath absent.
C7_HeaderPaths ==
  pc = "parsed" =>
    LET sections == FileSections(diff)
    IN  (\A k \in 1..Len(sections) :
            HeaderPathsOf(SectionLines(sections[k])[1]) # {})
          => /\ Len(files) = Len(sections)
             /\ \A k \in 1..Len(sections) :
                   \A pq \in HeaderPathsOf(SectionLines(sections[k])[1]) :
                      /\ files[k].path = pq[2]
                      /\ pq[1] # pq[2]
                           => /\ files[k].isRenamed
                              /\ "oldPath" \in DOMAIN files[k]
                              /\ files[k].oldPath = pq[1]
                      /\ pq[1] = pq[2] => "oldPath" \notin DOMAIN files[k]

\* C8: parseDiff emits a FileChange only for a section with a non-empty path
\* on its first line, one per section at most and in the order of the
\* sections, so the result is no longer than the list of non-empty sections.
C8_EmittedInSectionOrder ==
  pc = "parsed" =>
    /\ \A i \in 1..Len(files) : files[i].path # <<>>
    /\ Len(files) <= Len(FileSections(diff))
    /\ Aligned
    /\ \A i \in 1..Len(files) :
          files[i].path = HeaderPath(EmittedSections(diff)[i])

\* three sections, the middle one without a path: two records, in order
C8_Witness ==
  /\ pc = "parsed"
  /\ Len(FileSections(diff)) = 3
  /\ HeaderPath(FileSections(diff)[2]) = <<>>
  /\ Len(files) = 2
  /\ files[1].path = PathY
  /\ files[2].path = PathX

----------------------------------------------------------------------------
(* Properties of calculateDiffStats and processDiffIntelligently           *)

\* one element per unit of field fld over all the files
Units(fs, fld) ==
  UNION { {<<i, k>> : k \in 1..fs[i][fld]} : i \in 1..Len(fs) }

\* C9: calculateDiffStats returns totalFiles = the length of the sequence,
\* totalAdditions and totalDeletions = the sums of the files' additions and
\* deletions, totalChanges = their sum; all are 0 for the empty sequence.
C9_StatsAreSums ==
  pc = "stats" =>
    /\ stats.totalFiles = Len(files)
    /\ stats.totalAdditions = Cardinality(Units(files, "additions"))
    /\ stats.totalDeletions = Cardinality(Units(files, "deletions"))
    /\ stats.totalChanges = stats.totalAdditions + stats.totalDeletions
    /\ files = <<>> =>
         /\ stats.totalFiles = 0
         /\ stats.totalAdditions = 0
         /\ stats.totalDeletions = 0
         /\ stats.totalChanges = 0

\* three files with different counts
C9_Witness ==
  /\ pc = "stats"
  /\ Len(files) = 3
  /\ stats.totalAdditions = 601
  /\ stats.totalDeletions = 201
  /\ stats.totalChanges = 802

\* C10: the stats of the result of processDiffIntelligently carry
\* estimatedTokens = estimateTokens of the raw diff text.
C10_StatsCarryEstimate ==
  pc = "processed" =>
    processed.stats.estimatedTokens = estimateTokens(diff)

----------------------------------------------------------------------------
(* Properties of estimateTokens and isLargeDiff                            *)

\* the least integer that is at least n / 2.5
CeilOfTwoFifths(n) == CHOOSE k \in 0..n : 5 * k >= 2 * n /\ 5 * (k - 1) < 2 * n

\* the total of additions and deletions of the files
TotalChanges(fs) ==
  Cardinality(Units(fs, "additions")) + Cardinality(Units(fs, "deletions"))

\* C11: estimateTokens(text) is the ceiling of n / 2.5 for the length n of
\* text, whatever its characters: 0 for the empty text, never negative, and
\* no smaller than the estimate of any text that is no longer.
C11_EstimateIsCeiling ==
  pc = "tokens" =>
    /\ tokens = CeilOfTwoFifths(Len(diff))
    /\ tokens >= 0
    /\ diff = <<>> => tokens = 0
    /\ \A other \in SizeTexts :
          /\ Len(other) = Len(diff) => estimateTokens(other) = tokens
          /\ Len(other) <= Len(diff) => estimateTokens(other) <= tokens

\* a text of 6 characters, not all the same, is estimated at 3 tokens
C11_Witness ==
  /\ pc = "tokens"
  /\ Len(diff) = 6
  /\ diff[1] # diff[2]
  /\ tokens = 3

----------------------------------------------------------------------------
(* Properties of generateCompactDiffSummary, read off the text it returns  *)

\* the lines of the summary
SummaryLines == SplitLines(summary)

\* the blocks of the summary, in order: each is the sequence of the lines
\* from a "### " line up to the next one
Blocks ==
  LET lines == SummaryLines
      starts == {k \in 1..Len(lines) : StartsWith(lines[k], <<"#", "#", "#", " ">>)}
      ends == starts \cup {Len(lines) + 1}
  IN  [i \in 1..Cardinality(starts) |->
         LET from == CHOOSE k \in starts :
                       Cardinality({j \in starts : j < k}) = i - 1
             to == CHOOSE k \in ends :
                     k > from /\ \A j \in ends : j > from => k <= j
         IN  SubSeq(lines, from, to - 1)]

\* the lines of a block that start with prefix
LinesWith(block, prefix) ==
  SelectSeq(block, LAMBDA line : StartsWith(line, prefix))

\* the number n with its noun, singular exactly for 1
Counted(n, noun) == NumStr(n) \o <<" ">> \o noun \o (IF n = 1 THEN <<>> ELSE <<"s">>)

\* C13: the summary holds one statistics line, built from
\* calculateDiffStats of the files, each noun singular exactly when its
\* count is 1.
C13_StatisticsLine ==
  pc = "summary" =>
    LET st == calculateDiffStats(files)
        found == SelectSeq(SummaryLines,
                           LAMBDA line : StartsWith(line, <<"*", "*", "S", "t", "a", "t", "i", "s", "t", "i", "c", "s", "*", "*", ":", " ">>))
    IN  found = << <<"*", "*", "S", "t", "a", "t", "i", "s", "t", "i", "c", "s", "*", "*", ":", " ">>
                     \o Counted(st.totalFiles, <<"f", "i", "l", "e">>) \o <<" ", "c", "h", "a", "n", "g", "e", "d", ",", " ">>
                     \o Counted(st.totalAdditions, <<"i", "n", "s", "e", "r", "t", "i", "o", "n">>) \o <<"(", "+", ")", ",", " ">>
                     \o Counted(st.totalDeletions, <<"d", "e", "l", "e", "t", "i", "o", "n">>) \o <<"(", "-", ")">> >>

\* one file, one insertion and no deletion
C13_Witness ==
  /\ pc = "summary"
  /\ Len(files) = 1
  /\ calculateDiffStats(files).totalAdditions = 1
  /\ calculateDiffStats(files).totalDeletions = 0
  /\ \E k \in 1..Len(SummaryLines) :
        SummaryLines[k] = <<"*", "*", "S", "t", "a", "t", "i", "s", "t", "i", "c", "s", "*", "*", ":", " ", "1", " ", "f", "i", "l", "e", " ", "c", "h", "a", "n", "g", "e", "d", ",", " ", "1", " ", "i", "n", "s", "e", "r", "t", "i", "o", "n", "(", "+", ")", ",", " ", "0", " ", "d", "e", "l", "e", "t", "i", "o", "n", "s", "(", "-", ")">>

\* the status line the priority isNew, isDeleted, isRenamed asks for
ExpectedStatus(file) ==
  IF file.isNew THEN << <<"*", "*", "S", "t", "a", "t", "u", "s", "*", "*", ":", " ", "N", "e", "w", " ", "f", "i", "l", "e">> >>
  ELSE IF file.isDeleted THEN << <<"*", "*", "S", "t", "a", "t", "u", "s", "*", "*", ":", " ", "D", "e", "l", "e", "t", "e", "d">> >>
  ELSE IF file.isRenamed /\ "oldPath" \in DOMAIN file
  THEN << <<"*", "*", "S", "t", "a", "t", "u", "s", "*", "*", ":", " ", "R", "e", "n", "a", "m", "e", "d", " ", "f", "r", "o", "m", " ", GRAVE>> \o file.oldPath \o <<GRAVE>> >>
  ELSE <<>>

\* C14: the summary has one block per file, in input order; each block has
\* at most one status line, "New file" before "Deleted" before "Renamed
\* from"; the block of a binary file holds, after it, the "Binary file" line
\* and nothing else.
C14_StatusAndBinary ==
  pc = "summary" =>
    LET blocks == Blocks
    IN  /\ Len(blocks) = Len(files)
        /\ \A k \in 1..Len(files) :
              LET file == files[k]
                  status == LinesWith(blocks[k], <<"*", "*", "S", "t", "a", "t", "u", "s", "*", "*", ":", " ">>)
                  rest == SelectSeq(Tail(blocks[k]),
                            LAMBDA line : /\ line # <<>>
                                          /\ ~StartsWith(line, <<"*", "*", "S", "t", "a", "t", "u", "s", "*", "*", ":", " ">>))
                  noOldPath == /\ file.isRenamed /\ "oldPath" \notin DOMAIN file
                               /\ ~file.isNew /\ ~file.isDeleted
              IN  /\ blocks[k][1] = <<"#", "#", "#", " ">> \o file.path
                  /\ Len(status) <= 1
                  /\ noOldPath => /\ Len(status) = 1
                                  /\ StartsWith(status[1], <<"*", "*", "S", "t", "a", "t", "u", "s", "*", "*", ":", " ", "R", "e", "n", "a", "m", "e", "d", " ", "f", "r", "o", "m", " ", GRAVE>>)
                  /\ ~noOldPath => status = ExpectedStatus(file)
                  /\ file.isBinary => rest = << <<"*", "*", "T", "y", "p", "e", "*", "*", ":", " ", "B", "i", "n", "a", "r", "y", " ", "f", "i", "l", "e">> >>
                  /\ ~file.isBinary
                       => /\ Len(rest) >= 1
                          /\ rest[1] = <<"*", "*", "C", "h", "a", "n", "g", "e", "s", "*", "*", ":", " ", "+">> \o NumStr(file.additions)
                                         \o <<" ", "-">> \o NumStr(file.deletions)

\* a new and deleted binary file, followed by a second file
C14_Witness ==
  /\ pc = "summary"
  /\ Len(files) = 2
  /\ files[1].isNew /\ files[1].isDeleted /\ files[1].isBinary
  /\ LinesWith(Blocks[1], <<"*", "*", "S", "t", "a", "t", "u", "s", "*", "*", ":", " ">>) = << <<"*", "*", "S", "t", "a", "t", "u", "s", "*", "*", ":", " ", "N", "e", "w", " ", "f", "i", "l", "e">> >>
  /\ LinesWith(Blocks[1], <<"*", "*", "T", "y", "p", "e", "*", "*", ":", " ">>) = << <<"*", "*", "T", "y", "p", "e", "*", "*", ":", " ", "B", "i", "n", "a", "r", "y", " ", "f", "i", "l", "e">> >>
  /\ LinesWith(Blocks[2], <<"*", "*", "C", "h", "a", "n", "g", "e", "s", "*", "*", ":", " ", "+">>) # <<>>

\* the entries of a file the summary lists: not context, not blank
Listed(file) ==
  SelectSeq(file.changes,
            LAMBDA c : /\ c.type \in {"addition", "deletion"}
                       /\ \E j \in 1..Len(c.line) : c.line[j] \notin WhiteSpace)

\* the line of the listing for the entry c
Shown(c) == (IF c.type = "addition" THEN <<"+", " ">> ELSE <<"-", " ">>) \o c.line

\* C15: for maxLinesPerFile > 0 the block of a file that is not binary lists
\* the first maxLinesPerFile of its N non-context, non-blank entries, in
\* order, and no other change line; it has the notice "... and R more
\* changes" with R = N - maxLinesPerFile, once, exactly when
\* N > maxLinesPerFile.
C15_ListingIsBounded ==
  pc = "summary" /\ maxLines > 0 =>
    LET blocks == Blocks
    IN  /\ Len(blocks) = Len(files)
        /\ \A k \in 1..Len(files) :
              LET listed == Listed(files[k])
                  N == Len(listed)
                  shown == SelectSeq(blocks[k],
                             LAMBDA line : \/ StartsWith(line, <<"+", " ">>)
                                           \/ StartsWith(line, <<"-", " ">>))
                  notices == LinesWith(blocks[k], <<".", ".", ".", " ", "a", "n", "d", " ">>)
              IN  IF files[k].isBinary
                  THEN shown = <<>> /\ notices = <<>>
                  ELSE /\ Len(shown) <= maxLines
                       /\ Len(shown) = (IF N < maxLines THEN N ELSE maxLines)
                       /\ \A j \in 1..Len(shown) : shown[j] = Shown(listed[j])
                       /\ N > maxLines
                            => notices = << <<".", ".", ".", " ", "a", "n", "d", " ">> \o NumStr(N - maxLines)
                                                \o <<" ", "m", "o", "r", "e", " ", "c", "h", "a", "n", "g", "e", "s">> >>
                       /\ N <= maxLines => notices = <<>>

\* two listed entries among three, one shown, a notice of one more
C15_Witness ==
  /\ pc = "summary"
  /\ maxLines = 1
  /\ Len(files) >= 1
  /\ Len(Listed(files[1])) = 2
  /\ Len(files[1].changes) = 3
  /\ LinesWith(Blocks[1], <<".", ".", ".", " ", "a", "n", "d", " ">>) = << <<".", ".", ".", " ", "a", "n", "d", " ", "1", " ", "m", "o", "r", "e", " ", "c", "h", "a", "n", "g", "e", "s">> >>

----------------------------------------------------------------------------
(* Properties of processDiffIntelligently                                  *)

\* C16: processDiffIntelligently(d) returns wasCompacted =
\* isLargeDiff(d, parseDiff(d)); content is d itself when wasCompacted is
\* false and generateCompactDiffSummary(parseDiff(d), 15) when it is true;
\* stats carries the totals of calculateDiffStats(parseDiff(d)).
C16_ProcessedBySize ==
  pc = "processed" =>
    LET fs == parseDiff(diff)
        st == calculateDiffStats(fs)
    IN  /\ processed.wasCompacted = isLargeDiff(diff, <<fs>>)
        /\ ~processed.wasCompacted => processed.content = diff
        /\ processed.wasCompacted
             => processed.content = generateCompactDiffSummary(fs, 15)
        /\ processed.stats.totalFiles = st.totalFiles
        /\ processed.stats.totalAdditions = st.totalAdditions
        /\ processed.stats.totalDeletions = st.totalDeletions
        /\ processed.stats.totalChanges = st.totalChanges

\* a text of 51 files is compacted, the first file's listing cut at 15
C16_Witness ==
  /\ pc = "processed"
  /\ processed.wasCompacted
  /\ processed.stats.totalFiles = 51
  /\ processed.stats.totalAdditions = 16
  /\ \E k \in 1..Len(SplitLines(processed.content)) :
        SplitLines(processed.content)[k] = <<".", ".", ".", " ", "a", "n", "d", " ", "1", " ", "m", "o", "r", "e", " ", "c", "h", "a", "n", "g", "e", "s">>

----------------------------------------------------------------------------
(* Properties of repeated calls                                            *)

----------------------------------------------------------------------------
(* C20: matchRepository returns undefined for no repositories; otherwise   *)
(* the first repository whose rootUri text equals the text of the          *)
(* sourceControl's rootUri, when the sourceControl has one and such a      *)
(* repository exists; otherwise the only repository when there is exactly  *)
(* one; otherwise undefined.  The result is undefined or an element of     *)
(* repositories.                                                           *)

\* the positions of the repositories with the rootUri of the sourceControl
MatchingPositions ==
  IF sourceControl = <<>> \/ sourceControl[1].rootUri = <<>> THEN {}
  ELSE {k \in 1..Len(repositories) :
          repositories[k].rootUri = sourceControl[1].rootUri[1]}

C20_MatchRepository ==
  pc = "matched" =>
    /\ Len(repositories) = 0 => matched = <<>>
    /\ Len(repositories) > 0 /\ MatchingPositions # {} =>
         \E k \in MatchingPositions :
           /\ \A j \in MatchingPositions : k <= j
           /\ matched = <<repositories[k]>>
    /\ Len(repositories) = 1 /\ MatchingPositions = {} =>
         matched = <<repositories[1]>>
    /\ Len(repositories) > 1 /\ MatchingPositions = {} => matched = <<>>
    /\ \/ matched = <<>>
       \/ \E k \in 1..Len(repositories) : matched = <<repositories[k]>>

\* two repositories share the rootUri of the sourceControl, after one that
\* does not: the first of the two is returned
C20_Witness ==
  /\ pc = "matched"
  /\ Len(repositories) = 3
  /\ MatchingPositions = {2, 3}
  /\ repositories[2] # repositories[3]
  /\ matched = <<repositories[2]>>

----------------------------------------------------------------------------
(* C18: commit generations never overlap.  At most one invocation of       *)
(* handleGenerateCommit is past the isGenerating guard at a time, and the  *)
(* flag is set while one is; an invocation that arrived while another was  *)
(* in progress has shown the warning and done nothing else: it has not     *)
(* read the diff, counted tokens, called the model, written an input box   *)
(* or reset the flag.                                                      *)

PastGuard(i) == invocation[i].pc \notin {"idle", "rejected", "done"}

C18_NoOverlap ==
  /\ Cardinality({i \in Invocations : PastGuard(i)}) <= 1
  /\ (\E i \in Invocations : PastGuard(i)) => isGenerating
  /\ \A i \in Invocations :
       invocation[i].pc = "rejected" =>
         /\ invocation[i].effects = {<<"warning", 0>>}
         /\ invocation[i].diff = <<>>

\* one invocation waits for the model while the other has been rejected
C18_Witness ==
  \E i, j \in Invocations :
    /\ invocation[i].pc = "generate"
    /\ invocation[j].pc = "rejected"
    /\ invocation[j].effects = {<<"warning", 0>>}
    /\ isGenerating

----------------------------------------------------------------------------
(* C19: in a workspace with several repositories, an invocation made for   *)
(* a repository reads the index and the staged diff of that repository,    *)
(* stages into it and writes its input box, whichever position the         *)
(* repository has.                                                         *)

RepositoryCalls == {"state", "diff", "add", "inputBox"}

C19_UsesTargetRepository ==
  \A i \in Invocations :
    \A e \in invocation[i].effects :
      e[1] \in RepositoryCalls => e[2] = invocation[i].target

----------------------------------------------------------------------------
(* C21: compaction reduces size.  When processDiffIntelligently classifies *)
(* the diff as large, the content it returns is no longer than the diff,   *)
(* and its token estimate is no greater, also for a diff that is large     *)
(* only by its number of files.                                            *)

C21_CompactionShrinks ==
  pc = "processed" /\ processed.wasCompacted =>
    /\ Len(processed.content) <= Len(diff)
    /\ estimateTokens(processed.content) <= estimateTokens(diff)

----------------------------------------------------------------------------
(* Properties of hunks                                                     *)

\* what the prefix of a line inside a hunk makes of it
EntryType(line) ==
  IF StartsWith(line, PLUS) /\ ~StartsWith(line, PLUS3) THEN "addition"
  ELSE IF StartsWith(line, MINUS) /\ ~StartsWith(line, MINUS3) THEN "deletion"
  ELSE IF StartsWith(line, SPACE) THEN "context"
  ELSE "none"

\* the lines of the section after its first "@@" line that are no "@@" line
\* and whose prefix makes an entry
EntryLines(section) ==
  LET lines == SectionLines(section)
  IN  {k \in 1..Len(lines) :
         /\ \E h \in 1..(k - 1) : StartsWith(lines[h], AT_AT)
         /\ ~StartsWith(lines[k], AT_AT)
         /\ EntryType(lines[k]) # "none"}

\* the position of k among the elements of S
Rank(S, k) == Cardinality({m \in S : m < k}) + 1

\* the last hunk header of the expected shape before line k, 0 when none
LastHeader(lines, k) ==
  LET hs == {h \in 1..(k - 1) : IsMatchingHeader(lines, h)}
  IN  IF hs = {} THEN 0 ELSE CHOOSE h \in hs : \A g \in hs : g <= h

\* C23: the hunks of a section accumulate into one FileChange whose counts
\* are the sums over the hunks; every hunk header of the expected shape
\* resets the line counter to its post-change start N, so that the first
\* addition or context line after it is numbered N and each later one of the
\* hunk one more than the one before; deletion lines carry no number and do
\* not advance the counter.
C23_HunksAccumulate ==
  pc = "parsed" =>
    /\ Aligned
    /\ \A i \in 1..Len(files) :
         LET section == EmittedSections(diff)[i]
             lines == SectionLines(section)
             at == NumberedLines(section)
             entries == EntryLines(section)
             n == Numbered(files[i].changes)
         IN  ~HasLine(section, BINARY_FILES) =>
               /\ files[i].additions =
                    Cardinality({k \in entries :
                                   EntryType(lines[k]) = "addition"})
               /\ files[i].deletions =
                    Cardinality({k \in entries :
                                   EntryType(lines[k]) = "deletion"})
               /\ Len(n) = Cardinality(at)
               /\ \A k \in at :
                    LET h == LastHeader(lines, k)
                    IN  h # 0 =>
                          n[Rank(at, k)].lineNumber =
                            ParseInt(HunkHeaderMatch(lines[h])[2])
                              + Cardinality({m \in at : h < m /\ m < k})

\* two hunks: additions numbered 12 and 13 around a deletion, then the
\* second header and an addition numbered 7
C23_Witness ==
  /\ pc = "parsed"
  /\ Len(files) = 1
  /\ files[1].additions = 3
  /\ files[1].deletions = 1
  /\ files[1].changes =
       <<[type |-> "addition", line |-> <<"a">>, lineNumber |-> 12],
         [type |-> "deletion", line |-> <<"b">>],
         [type |-> "addition", line |-> <<"a">>, lineNumber |-> 13],
         [type |-> "addition", line |-> <<"a">>, lineNumber |-> 7]>>

\* C24: inside a hunk of a section without a binary marker every line is
\* classified by its prefix alone: "+" but not "+++" is an addition, "-" but
\* not "---" a deletion, a leading space context, each recorded without its
\* first character; any other line makes no entry, changes no count and
\* does not advance the line counter; a line before the first "@@" line
\* makes no entry.
C24_ClassifiedByPrefix ==
  pc = "parsed" =>
    /\ Aligned
    /\ \A i \in 1..Len(files) :
         LET section == EmittedSections(diff)[i]
             lines == SectionLines(section)
             entries == EntryLines(section)
             changes == files[i].changes
         IN  ~HasLine(section, BINARY_FILES) =>
               /\ Len(changes) = Cardinality(entries)
               /\ files[i].additions = CountType(changes, "addition")
               /\ files[i].deletions = CountType(changes, "deletion")
               /\ \A k \in entries :
                    LET c == changes[Rank(entries, k)]
                    IN  /\ c.type = EntryType(lines[k])
                        /\ c.line = Tail(lines[k])
               /\ \A k, m \in entries :
                    /\ k < m
                    /\ EntryType(lines[k]) # "deletion"
                    /\ EntryType(lines[m]) # "deletion"
                    /\ \A j \in (k + 1)..(m - 1) :
                         /\ ~StartsWith(lines[j], AT_AT)
                         /\ EntryType(lines[j]) \in {"none", "deletion"}
                    => changes[Rank(entries, m)].lineNumber =
                         changes[Rank(entries, k)].lineNumber + 1

\* an addition before the hunk header makes no entry, a "+++" line inside
\* the hunk makes none, and the "++a" line after it is the addition "+a"
\* numbered from the header
C24_Witness ==
  /\ pc = "parsed"
  /\ Len(files) = 1
  /\ \E k \in 1..Len(SectionLines(EmittedSections(diff)[1])) :
        /\ SectionLines(EmittedSections(diff)[1])[k] = LineFileNew
        /\ \E h \in 1..(k - 1) :
              StartsWith(SectionLines(EmittedSections(diff)[1])[h], AT_AT)
  /\ files[1].changes =
       <<[type |-> "addition", line |-> <<"+", "a">>, lineNumber |-> 12]>>
  /\ files[1].additions = 1

----------------------------------------------------------------------------
(* C27: every FileChange returned by parseDiff with isRenamed = true has   *)
(* an oldPath, also when the paths of the header line are identical and    *)
(* the section holds a "rename from" line; so the summary never shows      *)
(* 'Renamed from' without an old path.                                     *)

C27_RenamedHasOldPath ==
  pc = "parsed" =>
    \A i \in 1..Len(files) :
       files[i].isRenamed => "oldPath" \in DOMAIN files[i]

----------------------------------------------------------------------------
(* C22: one call of generateCommitMessage issues at most two               *)
(* generateContent requests; the second is issued exactly when the first   *)
(* failed with MODEL_NOT_FOUND or status 404 and none of the earlier       *)
(* classes (invalid key, permission, quota) matched, and it names the      *)
(* model of getBestAvailableModel; a retry that succeeds returns its text, *)
(* a retry that fails raises 'Model not found'.                            *)

NotFoundClass(error) ==
  Includes(ErrorMessage(error), "MODEL_NOT_FOUND")
  \/ ErrorStatus(error) = <<404>>

EarlierClass(error) ==
  \/ Includes(ErrorMessage(error), "API_KEY_INVALID")
  \/ ErrorStatus(error) = <<400>>
  \/ Includes(ErrorMessage(error), "PERMISSION_DENIED")
  \/ ErrorStatus(error) = <<403>>
  \/ Includes(ErrorMessage(error), "RESOURCE_EXHAUSTED")
  \/ Includes(ErrorMessage(error), "quota")
  \/ ErrorStatus(error) = <<429>>

C22_RetryOnce ==
  LET g == generation
      retried == g.pc \in {"bestModel", "retry"}
                 \/ (g.pc = "done" /\ Len(g.requests) = 2)
  IN  g # None =>
        /\ Len(g.requests) <= 2
        /\ g.error # <<>> =>
             (retried <=> NotFoundClass(g.error[1])
                          /\ ~EarlierClass(g.error[1]))
        /\ g.error = <<>> => ~retried /\ Len(g.requests) <= 1
        /\ Len(g.requests) = 2 =>
             /\ g.requests[2].model = getBestAvailableModel(g.listing[1])
             /\ g.requests[2].prompt = g.requests[1].prompt
        /\ g.pc = "done" /\ Len(g.requests) = 2 =>
             IF g.threw THEN g.kind = "Model not found" /\ g.returned = <<>>
             ELSE /\ g.response # <<>>
                  /\ g.returned = StripQuotes(Trim(g.response[1]))

\* the configured model is missing, the listing offers another one, and
\* the retry's quoted text is returned without its quotes
C22_Witness ==
  /\ generation # None
  /\ generation.pc = "done"
  /\ Len(generation.requests) = 2
  /\ ~generation.threw
  /\ generation.requests[1].model = "gemini-1.0-pro"
  /\ generation.requests[2].model = "gemini-2.5-pro"
  /\ generation.response = << <<" ", "\"", "f", "i", "x", "\"", "\n">> >>
  /\ generation.returned = <<"f", "i", "x">>

----------------------------------------------------------------------------
(* C26: a failed request that matches exactly one of the listed kinds      *)
(* (invalid key: API_KEY_INVALID; permission denied: PERMISSION_DENIED or  *)
(* 403; quota: RESOURCE_EXHAUSTED, quota or 429; model not found:          *)
(* MODEL_NOT_FOUND or 404; invalid argument: INVALID_ARGUMENT or 400;      *)
(* connection: fetch, network or ECONNREFUSED) is reported under the       *)
(* message of that kind, so an error of status 400 is reported as          *)
(* 'Invalid argument' and not as 'Invalid API Key'.                        *)

ErrorKinds(error) ==
  LET errorMessage == ErrorMessage(error)
      errorStatus == ErrorStatus(error)
  IN  (IF Includes(errorMessage, "API_KEY_INVALID")
       THEN {"Invalid API Key"} ELSE {})
      \cup (IF Includes(errorMessage, "PERMISSION_DENIED")
               \/ errorStatus = <<403>>
            THEN {"Permission denied"} ELSE {})
      \cup (IF Includes(errorMessage, "RESOURCE_EXHAUSTED")
               \/ Includes(errorMessage, "quota") \/ errorStatus = <<429>>
            THEN {"Limit exceeded"} ELSE {})
      \cup (IF Includes(errorMessage, "MODEL_NOT_FOUND")
               \/ errorStatus = <<404>>
            THEN {"Model not found"} ELSE {})
      \cup (IF Includes(errorMessage, "INVALID_ARGUMENT")
               \/ errorStatus = <<400>>
            THEN {"Invalid argument"} ELSE {})
      \cup (IF Includes(errorMessage, "fetch")
               \/ Includes(errorMessage, "network")
               \/ Includes(errorMessage, "ECONNREFUSED")
            THEN {"Connection error"} ELSE {})

C26_OwnMessage ==
  generation # None /\ generation.threw /\ generation.error # <<>> =>
    \A kind \in ErrorKinds(generation.error[1]) :
       ErrorKinds(generation.error[1]) = {kind} => generation.kind = kind

----------------------------------------------------------------------------
(* C30: the prompt whose tokens handleGenerateCommit counts is the prompt  *)
(* generateCommitMessage sends with its first request, for every diff,     *)
(* the ones processDiffIntelligently compacts included.                    *)

C30_SamePrompt ==
  generation # None /\ generation.requests # <<>> =>
    generation.counted = <<generation.requests[1].prompt>>

----------------------------------------------------------------------------
(* C25: an invocation of handleGenerateCommit that passed the guard keeps  *)
(* isGenerating true while it awaits and leaves it false when it finishes, *)
(* on every exit path; an invocation is rejected only while another one    *)
(* is between the guard and its exit, never after that one has finished.   *)

C25_FlagFollowsInvocation ==
  [][ \A i \in Invocations :
        /\ PastGuard(i) /\ invocation'[i].pc = "done" =>
             /\ ~isGenerating'
             /\ <<"resetFlag", 0>> \in invocation'[i].effects
        /\ PastGuard(i) /\ invocation'[i].pc # "done" =>
             isGenerating /\ isGenerating'
        /\ invocation[i].pc = "idle" /\ invocation'[i].pc = "rejected" =>
             \E j \in Invocations \ {i} : PastGuard(j)
        /\ invocation[i].pc = "idle"
           /\ (\A j \in Invocations : ~PastGuard(j)) =>
             invocation'[i].pc \in {"idle", "getApiKey"} ]_vars

\* one invocation left at the 'Change Threshold' choice, and the one made
\* after it was let in
C25_Witness ==
  \E i, j \in Invocations :
    /\ invocation[i].pc = "done"
    /\ <<"openSettings", 0>> \in invocation[i].effects
    /\ <<"resetFlag", 0>> \in invocation[i].effects
    /\ invocation[j].pc = "generate"
    /\ isGenerating

----------------------------------------------------------------------------
(* C28: getStagedDiff neither asks nor stages when the repository it reads *)
(* has staged changes; with none (and changes in the working tree) it asks *)
(* unless the stored preference is true, and then calls stageAllChanges    *)
(* without asking.  The preference becomes true only by the answer 'Yes,   *)
(* don't ask again' and false only by resetAutoStagePreference.  When the  *)
(* prompt is dismissed nothing is staged and no diff is returned.          *)

StagePrompt == <<"showInformationMessage", 0>>

StageCall == <<"stageAllChanges", 0>>

----------------------------------------------------------------------------
(* C29: an input box changes only in the step in which generateCommit-     *)
(* Message returned a non-empty message to an invocation, to exactly that  *)
(* message; an invocation that stops anywhere else leaves every input box  *)
(* as it was, and one that stops before the generation has not called      *)
(* generateCommitMessage.                                                  *)

InputBoxes(repos) == [k \in 1..Len(repos) |-> repos[k].inputBox]

C29_InputBoxWrittenOnSuccess ==
  [][ \A i \in Invocations :
        invocation'[i] # invocation[i] =>
          IF /\ invocation[i].pc = "generate"
             /\ invocation'[i].commitMessage \notin {<<>>, <<"">>}
          THEN /\ Len(repositories) > 0
               /\ InputBoxes(repositories') =
                    [InputBoxes(repositories) EXCEPT
                       ![1] = invocation'[i].commitMessage[1]]
               /\ <<"generateCommitMessage", 0>> \in invocation[i].effects
          ELSE /\ InputBoxes(repositories') = InputBoxes(repositories)
               /\ <<"inputBox", 1>> \notin invocation'[i].effects
               /\ invocation'[i].pc = "done" /\ invocation[i].pc # "generate"
                    => <<"generateCommitMessage", 0>>
                         \notin invocation'[i].effects ]_vars

\* one invocation wrote its message; the next one got the empty text and
\* left the box as the first one wrote it
C29_Witness ==
  \E i, j \in Invocations :
    /\ invocation[i].pc = "done"
    /\ invocation[i].commitMessage = <<"fix: typo">>
    /\ <<"inputBox", 1>> \in invocation[i].effects
    /\ invocation[j].pc = "done"
    /\ invocation[j].commitMessage = <<"">>
    /\ <<"generateCommitMessage", 0>> \in invocation[j].effects
    /\ repositories[1].inputBox = "fix: typo"

====
